---- MODULE Spec2Model ----
(***************************************************************************)
(* Process / thread / syscall core of the devine kernel: the priority run  *)
(* queue and scheduler (process/scheduler.rs), the thread and process      *)
(* tables (process/thread.rs, process/mod.rs), the security contexts       *)
(* (security/mod.rs) and the syscall gate with its handlers                *)
(* (syscall/mod.rs).  Single logical CPU: every operation runs to          *)
(* completion before the next one starts.                                  *)
(***************************************************************************)
EXTENDS Integers, Sequences, FiniteSets, TLC

VARIABLES
    procs,                  \* PROCESS_TABLE.processes : pid -> Process (present slots)
    next_pid,               \* PROCESS_TABLE.next_pid
    threads,                \* THREAD_TABLE.threads : tid -> Thread (present slots)
    next_tid,               \* THREAD_TABLE.next_tid
    queues,                 \* SCHEDULER.run_queue.queues : lane 0..4 -> FIFO of tids
    current,                \* SCHEDULER.run_queue.current_thread (None = 0)
    idle_thread,            \* SCHEDULER.run_queue.idle_thread (None = 0)
    time_slice_remaining,   \* SCHEDULER.time_slice_remaining
    total_ticks,            \* SCHEDULER.total_ticks
    sec,                    \* SECURITY_CONTEXTS : pid -> SecurityContext
    zombies,                \* ZOMBIE_CHILDREN
    waiters,                \* WAITERS
    stdout,                 \* USER_STDOUT
    stdin,                  \* USER_STDIN
    res,                    \* the syscall that ran last, what it returned, and the wake-up
                            \* (see woken) its caller held when it entered
    woken,                  \* tid -> child whose exit unblocked the wait(0) of tid (0 = none)
    rq,                     \* a stand-alone RunQueue driven by enqueue / pick_next
    rq_seq,                 \* <<lane, tid>> -> ordinal of the enqueue that queued it
    rq_count,               \* number of enqueue calls made on rq
    rq_last,                \* what the last call on rq was and what it returned
    slice,                  \* history of the running slice: the budget the last schedule()
                            \* left, total_ticks at that moment, tick() calls since then
    owner,                  \* spin::Mutex -> who holds it: "free", "task" or "irq"
    task,                   \* the kernel operation running in task context, lock by lock
    irq,                    \* the timer interrupt handler running on top of it, lock by lock
    fdt,                    \* a stand-alone FileDescriptorTable
    elf,                    \* an ELF image, the target it was loaded for and the result
    stk,                    \* an argv and envp and the stack image built for them
    smp                     \* processors in kernel operations at once: programs and lock owners

kvars == <<procs, next_pid, threads, next_tid, queues, current, idle_thread,
           time_slice_remaining, total_ticks, sec, zombies, waiters, stdout, stdin>>
rqvars == <<rq, rq_seq, rq_count, rq_last>>
lockvars == <<owner, task, irq>>
elfvars == <<elf, stk>>
unitvars == <<fdt, elf, stk, smp>>
vars == <<procs, next_pid, threads, next_tid, queues, current, idle_thread,
          time_slice_remaining, total_ticks, sec, zombies, waiters, stdout, stdin,
          res, woken, rq, rq_seq, rq_count, rq_last, slice, owner, task, irq, fdt, elf, stk, smp>>

----------------------------------------------------------------------------
(* Bounds of the exploration *)

MaxPid == 2             \* processes ever created under Spec
MaxTid == 3             \* threads ever created under Spec
RotateMaxTid == 2        \* processes, of one thread each, under SpecRotate
RotateMaxTicks == 2      \* timer ticks under SpecRotate
BlockMaxPid == 3        \* the same under SpecBlock
BlockMaxTid == 3
BlockMaxTicks == 1      \* timer ticks under SpecBlock
WaitMaxPid == 3         \* the same under SpecWait
WaitMaxTid == 3
GateMaxPid == 2         \* the same under SpecGate
GateMaxTid == 2
ApiMaxPid == 2          \* the same under SpecApi
ApiMaxTid == 2
TickMaxTid == 2         \* threads ever created under SpecTick
TickMaxTicks == 7       \* timer ticks delivered under SpecTick
DispMaxPid == 1         \* processes and threads ever created under SpecDispatch
DispMaxTid == 2
MaxStdio == 1           \* longest stdout / stdin buffer
MaxRqOps == 4           \* calls made on the stand-alone run queue
MaxFd == 3              \* highest descriptor number of the stand-alone fd table
WordBits == 16          \* width of usize / isize in the model

----------------------------------------------------------------------------
(* Plain data *)

None == 0

\* ids are handed out from 1; these ranges cover every specification below
Max(a, b) == IF a > b THEN a ELSE b
Pids == 1..Max(Max(MaxPid, WaitMaxPid), Max(DispMaxPid, Max(GateMaxPid, ApiMaxPid)))
Tids == 1..Max(Max(MaxTid, WaitMaxTid), Max(DispMaxTid, Max(GateMaxTid, ApiMaxTid)))

\* Priority as usize
Idle == 0
Low == 1
Normal == 2
High == 3
Realtime == 4
Lanes == 0..4

\* PrivilegeLevel as u8
Ring0 == 0
Ring1 == 1
Ring2 == 2
Ring3 == 3

\* capability masks, as the set of bit positions that are set
CAP_NONE == {}
CAP_PROC_MANAGE == {16}
CAP_VM_MANAGE == {17}
CAP_CONSOLE_IO == {18}
CAP_FS_RW == {19}
CAP_IPC == {20}
CAP_SYS_ADMIN == {63}
U64_MAX_MASK == 0..63

\* Errno
EPERM == 1
ESRCH == 3
ENOMEM == 12
EINVAL == 22
ENOSYS == 38

\* Result<usize, Errno>
Ok(v) == [ok |-> TRUE, val |-> v]
Err(e) == [ok |-> FALSE, val |-> e]

\* syscall_handler: `value as isize` is a two's-complement reinterpretation of the
\* machine word, `-(errno as isize)` the negated errno
as_isize(v) == IF v >= 2^(WordBits - 1) THEN v - 2^WordBits ELSE v
syscall_handler_ret(r) == IF r.ok THEN as_isize(r.val) ELSE 0 - r.val

----------------------------------------------------------------------------
(* security/mod.rs *)

SecurityContext_new(uid, privilege) ==
    [uid |-> uid, gid |-> uid, euid |-> uid, egid |-> uid,
     privilege |-> privilege, umask |-> 18, capabilities |-> {}]

SecurityContext_kernel ==
    [SecurityContext_new(0, Ring0) EXCEPT !.capabilities = U64_MAX_MASK]

SecurityContext_as_user(uid) == SecurityContext_new(uid, Ring3)

with_capabilities(ctx, caps) == [ctx EXCEPT !.capabilities = caps]

\* a gate that lets every ring through
is_privileged_enough_unchecked(ctx, max_allowed_ring) == TRUE

is_privileged_enough(ctx, max_allowed_ring) == ctx.privilege <= max_allowed_ring

\* a gate that lets every capability mask through
has_capabilities_unchecked(ctx, required) == TRUE

has_capabilities(ctx, required) == (ctx.capabilities \cap required) = required

\* register_process: overwrite the entry of pid, or push a new one
register_process(s, pid, context) ==
    [p \in (DOMAIN s) \cup {pid} |-> IF p = pid THEN context ELSE s[p]]

remove_context(s, pid) == [p \in (DOMAIN s) \ {pid} |-> s[p]]

\* a clone that keeps the whole mask of the parent
inherit_child_unrestricted(ctx, caps_subset) == ctx

inherit_child(ctx, caps_subset) ==
    [ctx EXCEPT !.capabilities = ctx.capabilities \cap caps_subset]

\* the table after the call and the context returned (None: no such parent)
clone_context_with_caps_subset(s, parent_pid, child_pid, caps_subset) ==
    IF parent_pid \in DOMAIN s
    THEN LET child == inherit_child(s[parent_pid], caps_subset)
         IN [table |-> register_process(s, child_pid, child), child |-> child]
    ELSE [table |-> s, child |-> None]

security_set_capabilities(s, pid, capabilities) ==
    IF pid \in DOMAIN s
    THEN [s EXCEPT ![pid].capabilities = capabilities]
    ELSE s

security_grant_capabilities(s, pid, mask) ==
    IF pid \in DOMAIN s
    THEN [s EXCEPT ![pid].capabilities = @ \cup mask]
    ELSE s

----------------------------------------------------------------------------
(* process/context.rs, process/thread.rs *)

Context_new_user(entry_point, stack_pointer) ==
    [rip |-> entry_point, cs |-> 27, rflags |-> 514, rsp |-> stack_pointer, ss |-> 35]

Context_new_kernel(entry_point, stack_pointer) ==
    [rip |-> entry_point, cs |-> 8, rflags |-> 514, rsp |-> stack_pointer, ss |-> 16]

\* a time slice that ignores the priority
calculate_time_slice_flat(priority) == 10

calculate_time_slice(priority) ==
    CASE priority = Idle -> 1
      [] priority = Low -> 5
      [] priority = Normal -> 10
      [] priority = High -> 20
      [] priority = Realtime -> 50

Thread_new(id, process_id, priority, entry_point, kernel_stack, user_stack) ==
    [id |-> id,
     process_id |-> process_id,
     state |-> "Ready",
     priority |-> priority,
     context |-> IF user_stack # None
                 THEN Context_new_user(entry_point, user_stack)
                 ELSE Context_new_kernel(entry_point, kernel_stack),
     kernel_stack |-> kernel_stack,
     user_stack |-> user_stack,
     time_slice |-> calculate_time_slice(priority),
     total_cpu_time |-> 0]

is_runnable(thread) == thread.state = "Ready" \/ thread.state = "Running"

\* remove a key from a table
Without(f, x) == [y \in (DOMAIN f) \ {x} |-> f[y]]

\* insert or overwrite a key of a table
With(f, x, v) == [y \in (DOMAIN f) \cup {x} |-> IF y = x THEN v ELSE f[y]]

Contains(s, x) == \E i \in 1..Len(s) : s[i] = x

\* position of the first element of s satisfying Test, 0 when there is none
Position(s, Test(_)) ==
    IF \E i \in 1..Len(s) : Test(s[i])
    THEN CHOOSE i \in 1..Len(s) : Test(s[i]) /\ \A j \in 1..(i - 1) : ~Test(s[j])
    ELSE 0

\* Vec::remove(index)
RemoveAt(s, i) == SubSeq(s, 1, i - 1) \o SubSeq(s, i + 1, Len(s))

----------------------------------------------------------------------------
(* process/scheduler.rs : RunQueue *)

\* an enqueue that does not look for the id first
enqueue_unconditionally(q, tid, priority) == [q EXCEPT ![priority] = Append(@, tid)]

enqueue(q, tid, priority) ==
    IF ~Contains(q[priority], tid)
    THEN [q EXCEPT ![priority] = Append(@, tid)]
    ELSE q

dequeue(q, priority) ==
    IF q[priority] # <<>>
    THEN [tid |-> Head(q[priority]), queues |-> [q EXCEPT ![priority] = Tail(@)]]
    ELSE [tid |-> None, queues |-> q]

\* for i in (0..5).rev(): the first lane, scanning down from i, that is not empty;
\* -1 when there is none
RECURSIVE scan_lanes(_, _)
scan_lanes(q, i) ==
    IF i < 0 THEN 0 - 1
    ELSE IF q[i] # <<>> THEN i
    ELSE scan_lanes(q, i - 1)

\* for i in 0..5: a scan that starts at the Idle lane
pick_next_lowest_lane(q, idle) ==
    LET nonempty == {i \in Lanes : q[i] # <<>>}
        i == CHOOSE i \in nonempty : \A j \in nonempty : i <= j
    IN IF nonempty # {}
       THEN [tid |-> Head(q[i]), queues |-> [q EXCEPT ![i] = Tail(@)]]
       ELSE [tid |-> idle, queues |-> q]

pick_next(q, idle) ==
    LET i == scan_lanes(q, 4)
    IN IF i >= 0
       THEN [tid |-> Head(q[i]), queues |-> [q EXCEPT ![i] = Tail(@)]]
       ELSE [tid |-> idle, queues |-> q]

remove(q, tid) == [i \in Lanes |-> SelectSeq(q[i], LAMBDA t : t # tid)]

----------------------------------------------------------------------------
(* The kernel state as one value, so that operations compose as in the code *)

K == [procs |-> procs, next_pid |-> next_pid, threads |-> threads, next_tid |-> next_tid,
      queues |-> queues, current |-> current, idle_thread |-> idle_thread,
      time_slice_remaining |-> time_slice_remaining, total_ticks |-> total_ticks,
      sec |-> sec, zombies |-> zombies, waiters |-> waiters,
      stdout |-> stdout, stdin |-> stdin]

Commit(k) ==
    /\ procs' = k.procs
    /\ next_pid' = k.next_pid
    /\ threads' = k.threads
    /\ next_tid' = k.next_tid
    /\ queues' = k.queues
    /\ current' = k.current
    /\ idle_thread' = k.idle_thread
    /\ time_slice_remaining' = k.time_slice_remaining
    /\ total_ticks' = k.total_ticks
    /\ sec' = k.sec
    /\ zombies' = k.zombies
    /\ waiters' = k.waiters
    /\ stdout' = k.stdout
    /\ stdin' = k.stdin

----------------------------------------------------------------------------
(* process/scheduler.rs : Scheduler *)

Scheduler_add_thread(k, tid) ==
    IF tid \in DOMAIN k.threads /\ is_runnable(k.threads[tid])
    THEN [k EXCEPT !.queues = enqueue(k.queues, tid, k.threads[tid].priority)]
    ELSE k

Scheduler_remove_thread(k, tid) == [k EXCEPT !.queues = remove(k.queues, tid)]

\* a schedule() that leaves the outgoing thread Running
schedule_without_demotion(k) ==
    LET cur == k.current
        keeps == /\ k.time_slice_remaining > 0
                 /\ cur # None
                 /\ cur \in DOMAIN k.threads
                 /\ k.threads[cur].state = "Running"
        pn == pick_next(k.queues, k.idle_thread)
        k2 == [k EXCEPT !.queues = pn.queues]
        k3 == IF pn.tid \in DOMAIN k2.threads
              THEN [k2 EXCEPT !.threads[pn.tid].state = "Running",
                              !.time_slice_remaining = k2.threads[pn.tid].time_slice]
              ELSE k2
    IN IF keeps THEN [k |-> k, ret |-> cur]
       ELSE IF pn.tid = None THEN [k |-> k2, ret |-> None]
       ELSE [k |-> [k3 EXCEPT !.current = pn.tid], ret |-> pn.tid]

\* schedule(): the new state and the returned Option<ThreadId>
\* a schedule() that puts the outgoing thread back at the head of its lane
schedule_requeues_in_front(k) ==
    LET cur == k.current
        keeps == /\ k.time_slice_remaining > 0
                 /\ cur # None
                 /\ cur \in DOMAIN k.threads
                 /\ k.threads[cur].state = "Running"
                 /\ is_runnable(k.threads[cur])
        k1 == IF cur # None /\ cur \in DOMAIN k.threads /\ k.threads[cur].state = "Running"
              THEN [k EXCEPT !.threads[cur].state = "Ready",
                             !.queues[k.threads[cur].priority] = <<cur>> \o @]
              ELSE k
        pn == pick_next(k1.queues, k1.idle_thread)
        k2 == [k1 EXCEPT !.queues = pn.queues]
        k3 == IF pn.tid \in DOMAIN k2.threads
              THEN [k2 EXCEPT !.threads[pn.tid].state = "Running",
                              !.time_slice_remaining = k2.threads[pn.tid].time_slice]
              ELSE k2
    IN IF keeps THEN [k |-> k, ret |-> cur]
       ELSE IF pn.tid = None THEN [k |-> k2, ret |-> None]
       ELSE [k |-> [k3 EXCEPT !.current = pn.tid], ret |-> pn.tid]

schedule(k) ==
    LET cur == k.current
        keeps == /\ k.time_slice_remaining > 0
                 /\ cur # None
                 /\ cur \in DOMAIN k.threads
                 /\ k.threads[cur].state = "Running"
                 /\ is_runnable(k.threads[cur])
        k1 == IF cur # None /\ cur \in DOMAIN k.threads /\ k.threads[cur].state = "Running"
              THEN [k EXCEPT !.threads[cur].state = "Ready",
                             !.queues = enqueue(k.queues, cur, k.threads[cur].priority)]
              ELSE k
        pn == pick_next(k1.queues, k1.idle_thread)
        k2 == [k1 EXCEPT !.queues = pn.queues]
        k3 == IF pn.tid \in DOMAIN k2.threads
              THEN [k2 EXCEPT !.threads[pn.tid].state = "Running",
                              !.time_slice_remaining = k2.threads[pn.tid].time_slice]
              ELSE k2
    IN IF keeps THEN [k |-> k, ret |-> cur]
       ELSE IF pn.tid = None THEN [k |-> k2, ret |-> None]
       ELSE [k |-> [k3 EXCEPT !.current = pn.tid], ret |-> pn.tid]

\* a tick that charges the budget without looking at it
tick_without_floor(k) ==
    LET k1 == [k EXCEPT !.total_ticks = @ + 1,
                        !.time_slice_remaining = @ - 1]
    IN IF k1.current # None /\ k1.current \in DOMAIN k1.threads
       THEN [k1 EXCEPT !.threads[k1.current].total_cpu_time = @ + 1]
       ELSE k1

tick(k) ==
    LET k1 == [k EXCEPT !.total_ticks = @ + 1,
                        !.time_slice_remaining = IF @ > 0 THEN @ - 1 ELSE @]
    IN IF k1.current # None /\ k1.current \in DOMAIN k1.threads
       THEN [k1 EXCEPT !.threads[k1.current].total_cpu_time = @ + 1]
       ELSE k1

yield_current(k) == [k EXCEPT !.time_slice_remaining = 0]

\* a block_current that puts the blocked thread back on its lane
block_current_requeues(k) ==
    IF k.current # None
    THEN LET k1 == IF k.current \in DOMAIN k.threads
                   THEN [k EXCEPT !.threads[k.current].state = "Blocked",
                                  !.queues = enqueue(k.queues, k.current,
                                                     k.threads[k.current].priority)]
                   ELSE k
         IN [k1 EXCEPT !.current = None]
    ELSE k

\* a block_current that parks the thread as Sleeping
block_current_sleeps(k) ==
    IF k.current # None
    THEN LET k1 == IF k.current \in DOMAIN k.threads
                   THEN [k EXCEPT !.threads[k.current].state = "Sleeping"]
                   ELSE k
         IN [k1 EXCEPT !.current = None]
    ELSE k

block_current(k) ==
    IF k.current # None
    THEN LET k1 == IF k.current \in DOMAIN k.threads
                   THEN [k EXCEPT !.threads[k.current].state = "Blocked"]
                   ELSE k
         IN [k1 EXCEPT !.current = None]
    ELSE k

\* an unblock that does not look at the state of the thread
unblock_thread_any_state(k, tid) ==
    IF tid \in DOMAIN k.threads
    THEN [k EXCEPT !.threads[tid].state = "Ready",
                   !.queues = enqueue(k.queues, tid, k.threads[tid].priority)]
    ELSE k

unblock_thread(k, tid) ==
    IF tid \in DOMAIN k.threads /\ k.threads[tid].state = "Blocked"
    THEN [k EXCEPT !.threads[tid].state = "Ready",
                   !.queues = enqueue(k.queues, tid, k.threads[tid].priority)]
    ELSE k

----------------------------------------------------------------------------
(* process/mod.rs, process/thread.rs : the tables *)

\* FileDescriptorTable: entries in insertion order and the next-free-fd counter
FileDescriptorEntry(fd, flags, inheritable, object) ==
    [fd |-> fd, flags |-> flags, inheritable |-> inheritable, object |-> object]

FileDescriptorTable_insert(t, fd, flags, inheritable, object) ==
    LET next_fd == IF t.next_fd >= fd + 1 THEN t.next_fd ELSE fd + 1
        index == Position(t.entries, LAMBDA e : e.fd = fd)
    IN IF index # 0
       THEN [entries |-> [t.entries EXCEPT ![index] =
                             FileDescriptorEntry(fd, flags, inheritable, object)],
             next_fd |-> next_fd]
       ELSE [entries |-> Append(t.entries, FileDescriptorEntry(fd, flags, inheritable, object)),
             next_fd |-> next_fd]

\* the table after the call and the fd it returned
FileDescriptorTable_allocate(t, flags, inheritable, object) ==
    [table |-> [entries |-> Append(t.entries,
                                   FileDescriptorEntry(t.next_fd, flags, inheritable, object)),
                next_fd |-> t.next_fd + 1],
     fd |-> t.next_fd]

FileDescriptorTable_remove(t, fd) ==
    LET index == Position(t.entries, LAMBDA e : e.fd = fd)
    IN IF index # 0 THEN [t EXCEPT !.entries = RemoveAt(@, index)] ELSE t

\* fold(0, |max_fd, entry| max_fd.max(entry.fd + 1))
RECURSIVE fold_max_fd(_, _)
fold_max_fd(entries, max_fd) ==
    IF entries = <<>> THEN max_fd
    ELSE fold_max_fd(Tail(entries),
                     IF max_fd >= Head(entries).fd + 1 THEN max_fd ELSE Head(entries).fd + 1)

FileDescriptorTable_inherit(t) ==
    LET entries == SelectSeq(t.entries, LAMBDA e : e.inheritable)
    IN [entries |-> entries, next_fd |-> fold_max_fd(entries, 0)]

FileDescriptorTable_default ==
    FileDescriptorTable_insert(
        FileDescriptorTable_insert(
            FileDescriptorTable_insert([entries |-> <<>>, next_fd |-> 0],
                                       0, 0, TRUE, "Stdin"),
            1, 0, TRUE, "Stdout"),
        2, 0, TRUE, "Stderr")

\* image is an Option<LoadedImage>: <<>> for None, <<i>> for Some(i)
Process_new(id, name, security) ==
    [id |-> id, name |-> name, threads |-> <<>>, parent |-> None,
     children |-> <<>>, security |-> security, image |-> <<>>]

\* create_process: the new process gets id k.next_pid
create_process(k, name, security) ==
    LET pid == k.next_pid
    IN [k EXCEPT !.next_pid = @ + 1,
                 !.sec = register_process(k.sec, pid, security),
                 !.procs = With(k.procs, pid, Process_new(pid, name, security))]

\* a thread table that hands out the lowest id no live thread holds
create_thread_lowest_free(k, process_id, priority, entry_point, kernel_stack, user_stack) ==
    LET free == (1..k.next_tid) \ DOMAIN k.threads
        tid == CHOOSE t \in free : \A u \in free : t <= u
        thread == Thread_new(tid, process_id, priority, entry_point, kernel_stack, user_stack)
        k1 == [k EXCEPT !.next_tid = @ + 1, !.threads = With(k.threads, tid, thread)]
    IN IF process_id \in DOMAIN k1.procs
       THEN [k1 EXCEPT !.procs[process_id].threads = Append(@, tid)]
       ELSE k1

\* a create_thread that leaves the thread out of its process's thread list
create_thread_unlisted(k, process_id, priority, entry_point, kernel_stack, user_stack) ==
    LET tid == k.next_tid
        thread == Thread_new(tid, process_id, priority, entry_point, kernel_stack, user_stack)
    IN [k EXCEPT !.next_tid = @ + 1, !.threads = With(k.threads, tid, thread)]

\* create_thread: the new thread gets id k.next_tid
create_thread(k, process_id, priority, entry_point, kernel_stack, user_stack) ==
    LET tid == k.next_tid
        thread == Thread_new(tid, process_id, priority, entry_point, kernel_stack, user_stack)
        k1 == [k EXCEPT !.next_tid = @ + 1, !.threads = With(k.threads, tid, thread)]
    IN IF process_id \in DOMAIN k1.procs
       THEN [k1 EXCEPT !.procs[process_id].threads = Append(@, tid)]
       ELSE k1

set_thread_state(k, tid, state) ==
    IF tid \in DOMAIN k.threads
    THEN [k EXCEPT !.threads[tid].state = state]
    ELSE k

\* a remove_process that leaves the security context of the process behind
remove_process_keeps_context(k, pid) ==
    IF pid \in DOMAIN k.procs
    THEN [k EXCEPT !.procs = Without(k.procs, pid)]
    ELSE k

\* ProcessTable::remove_process, which also drops the security context
remove_process(k, pid) ==
    IF pid \in DOMAIN k.procs
    THEN [k EXCEPT !.procs = Without(k.procs, pid), !.sec = remove_context(k.sec, pid)]
    ELSE k

set_process_capabilities(k, pid, capabilities) ==
    IF pid \in DOMAIN k.procs
    THEN [k EXCEPT !.procs[pid].security.capabilities = capabilities,
                   !.sec = security_set_capabilities(k.sec, pid, capabilities)]
    ELSE k

\* a grant that reaches the processes forked from pid as well
grant_process_capabilities_to_children(k, pid, mask) ==
    IF pid \in DOMAIN k.procs
    THEN [k EXCEPT !.procs = [p \in DOMAIN k.procs |->
                                IF p = pid \/ k.procs[p].parent = pid
                                THEN [k.procs[p] EXCEPT !.security.capabilities = @ \cup mask]
                                ELSE k.procs[p]],
                   !.sec = security_grant_capabilities(k.sec, pid, mask)]
    ELSE k

grant_process_capabilities(k, pid, mask) ==
    IF pid \in DOMAIN k.procs
    THEN [k EXCEPT !.procs[pid].security.capabilities = @ \cup mask,
                   !.sec = security_grant_capabilities(k.sec, pid, mask)]
    ELSE k

----------------------------------------------------------------------------
(* syscall/mod.rs : descriptors *)

SYS_EXIT == 0
SYS_FORK == 1
SYS_EXEC == 2
SYS_WAIT == 3
SYS_GETPID == 4
SYS_MMAP == 5
SYS_MUNMAP == 6
SYS_BRK == 7
SYS_CLONE == 8
SYS_WRITE == 9
SYS_READ == 10
SYS_OPEN == 11
SYS_CLOSE == 12
SYS_IOCTL == 13
SYS_YIELD == 14
SYS_NANOSLEEP == 15
SYS_DEBUG_LOG == 22
SYSCALL_MAX == 32

Descriptor(handler, max_caller_ring, required_capabilities) ==
    [handler |-> handler, max_caller_ring |-> max_caller_ring,
     required_capabilities |-> required_capabilities]

SYSCALL_TABLE ==
    [n \in 0..(SYSCALL_MAX - 1) |->
        CASE n = SYS_EXIT -> Descriptor("sys_exit", Ring3, CAP_NONE)
          [] n = SYS_FORK -> Descriptor("sys_fork", Ring3, CAP_PROC_MANAGE)
          [] n = SYS_EXEC -> Descriptor("sys_exec", Ring3, CAP_PROC_MANAGE)
          [] n = SYS_WAIT -> Descriptor("sys_wait", Ring3, CAP_PROC_MANAGE)
          [] n = SYS_GETPID -> Descriptor("sys_getpid", Ring3, CAP_NONE)
          [] n = SYS_MMAP -> Descriptor("sys_mmap", Ring3, CAP_VM_MANAGE)
          [] n = SYS_MUNMAP -> Descriptor("sys_munmap", Ring3, CAP_VM_MANAGE)
          [] n = SYS_BRK -> Descriptor("sys_brk", Ring3, CAP_VM_MANAGE)
          [] n = SYS_CLONE -> Descriptor("sys_clone", Ring3, CAP_PROC_MANAGE)
          [] n = SYS_WRITE -> Descriptor("sys_write", Ring3, CAP_CONSOLE_IO)
          [] n = SYS_READ -> Descriptor("sys_read", Ring3, CAP_CONSOLE_IO)
          [] n = SYS_YIELD -> Descriptor("sys_yield", Ring3, CAP_NONE)
          [] n = SYS_DEBUG_LOG -> Descriptor("sys_unimplemented", Ring0, CAP_NONE)
          [] OTHER -> Descriptor("sys_unimplemented", Ring3, CAP_NONE)]

syscall_descriptor(n) == IF n \in DOMAIN SYSCALL_TABLE THEN <<SYSCALL_TABLE[n]>> ELSE <<>>

\* scheduler::current_thread() and thread::get_thread(): <<>> stands for Err(ESRCH)
current_thread_snapshot(k) ==
    IF k.current # None /\ k.current \in DOMAIN k.threads
    THEN <<k.threads[k.current]>>
    ELSE <<>>

----------------------------------------------------------------------------
(* syscall/mod.rs : exit / wait bookkeeping *)

ZombieChild(parent, child, status) == [parent |-> parent, child |-> child, status |-> status]

Waiter(parent, tid, target) == [parent |-> parent, tid |-> tid, target |-> target]

register_waiter(k, parent, tid, pid) ==
    LET kept == SelectSeq(k.waiters, LAMBDA w : w.tid # tid)
        target == IF pid = 0 THEN None ELSE pid
    IN [k EXCEPT !.waiters = Append(kept, Waiter(parent, tid, target))]

\* a take_zombie that does not compare the parent
zombie_index_any_parent(zs, parent, pid) ==
    IF pid = 0
    THEN Position(zs, LAMBDA z : TRUE)
    ELSE Position(zs, LAMBDA z : z.child = pid)

\* index in the zombie list of the record take_zombie removes, 0 when none
zombie_index(zs, parent, pid) ==
    IF pid = 0
    THEN Position(zs, LAMBDA z : z.parent = parent)
    ELSE Position(zs, LAMBDA z : z.parent = parent /\ z.child = pid)

\* a record_child_exit that wakes the first waiter, whatever its parent or target
waiter_index_any_waiter(ws, parent_pid, child) ==
    Position(ws, LAMBDA w : TRUE)

\* index in the waiter list of the waiter an exit of child wakes, 0 when none
waiter_index(ws, parent_pid, child) ==
    Position(ws, LAMBDA w : w.parent = parent_pid /\ (w.target = None \/ w.target = child))

\* a record_child_exit that drops the waiter without unblocking its thread
record_child_exit_without_wakeup(k, parent, child, status) ==
    IF parent # None
    THEN LET k1 == IF parent \in DOMAIN k.procs
                   THEN [k EXCEPT !.procs[parent].children =
                                      SelectSeq(@, LAMBDA pid : pid # child)]
                   ELSE k
             k2 == [k1 EXCEPT !.zombies = Append(@, ZombieChild(parent, child, status))]
             index == waiter_index(k2.waiters, parent, child)
         IN IF index # 0
            THEN [k2 EXCEPT !.waiters = RemoveAt(@, index)]
            ELSE k2
    ELSE k

\* a record_child_exit that unblocks the waiter's thread and keeps its Waiter
record_child_exit_keeps_waiter(k, parent, child, status) ==
    IF parent # None
    THEN LET k1 == IF parent \in DOMAIN k.procs
                   THEN [k EXCEPT !.procs[parent].children =
                                      SelectSeq(@, LAMBDA pid : pid # child)]
                   ELSE k
             k2 == [k1 EXCEPT !.zombies = Append(@, ZombieChild(parent, child, status))]
             index == waiter_index(k2.waiters, parent, child)
         IN IF index # 0
            THEN unblock_thread(k2, k2.waiters[index].tid)
            ELSE k2
    ELSE k

record_child_exit(k, parent, child, status) ==
    IF parent # None
    THEN LET k1 == IF parent \in DOMAIN k.procs
                   THEN [k EXCEPT !.procs[parent].children =
                                      SelectSeq(@, LAMBDA pid : pid # child)]
                   ELSE k
             k2 == [k1 EXCEPT !.zombies = Append(@, ZombieChild(parent, child, status))]
             index == waiter_index(k2.waiters, parent, child)
         IN IF index # 0
            THEN unblock_thread([k2 EXCEPT !.waiters = RemoveAt(@, index)],
                                k2.waiters[index].tid)
            ELSE k2
    ELSE k

\* a finalize_thread that never reaps the process
finalize_thread_keeps_process(k, tid, thread, exit_code) ==
    LET k1 == set_thread_state(k, tid, "Terminated")
        k2 == Scheduler_remove_thread(k1, tid)
        k3 == [k2 EXCEPT !.threads = Without(k2.threads, tid)]
        pid == thread.process_id
    IN IF pid \in DOMAIN k3.procs
       THEN [k3 EXCEPT !.procs[pid].threads = SelectSeq(@, LAMBDA id : id # tid)]
       ELSE k3

finalize_thread(k, tid, thread, exit_code) ==
    LET k1 == set_thread_state(k, tid, "Terminated")
        k2 == Scheduler_remove_thread(k1, tid)
        k3 == [k2 EXCEPT !.threads = Without(k2.threads, tid)]
        pid == thread.process_id
    IN IF pid \in DOMAIN k3.procs
       THEN LET k4 == [k3 EXCEPT !.procs[pid].threads = SelectSeq(@, LAMBDA id : id # tid)]
            IN IF k4.procs[pid].threads = <<>>
               THEN record_child_exit(remove_process(k4, pid), k4.procs[pid].parent,
                                      pid, exit_code)
               ELSE k4
       ELSE k3

----------------------------------------------------------------------------
(* syscall/mod.rs : handlers.  Each returns the new kernel state and its    *)
(* SyscallResult.  env carries what the handler reads from its collaborators: *)
(* the outcome of each allocate_frame() call (None or a frame address), the  *)
(* bytes behind a user pointer, the outcome of the ELF load.                 *)

Ret(k, result) == [k |-> k, result |-> result]

sys_unimplemented(k) == Ret(k, Err(ENOSYS))

sys_exit(k, a1) ==
    LET snap == current_thread_snapshot(k)
    IN IF snap = <<>> THEN Ret(k, Err(ESRCH))
       ELSE Ret(finalize_thread(k, k.current, snap[1], a1), Ok(a1))

\* a fork that creates the child thread and leaves it out of the run queue
sys_fork_without_enqueue(k, env) ==
    LET snap == current_thread_snapshot(k)
        thread == snap[1]
        parent_pid == thread.process_id
        parent_process == k.procs[parent_pid]
        child_pid == k.next_pid
        k1 == create_process(k, parent_process.name, parent_process.security)
        k2 == [k1 EXCEPT !.procs[child_pid].parent = parent_pid,
                         !.procs[child_pid].image = parent_process.image,
                         !.procs[parent_pid].children = Append(@, child_pid)]
        k3 == create_thread(k2, child_pid, thread.priority, thread.context.rip,
                            env.frame2, thread.user_stack)
    IN IF snap = <<>> THEN Ret(k, Err(ESRCH))
       ELSE IF parent_pid \notin DOMAIN k.procs THEN Ret(k, Err(ESRCH))
       ELSE IF env.frame1 = None THEN Ret(k, Err(ENOMEM))
       ELSE IF env.frame2 = None THEN Ret(k2, Err(ENOMEM))
       ELSE Ret(k3, Ok(child_pid))

sys_fork(k, env) ==
    LET snap == current_thread_snapshot(k)
        thread == snap[1]
        parent_pid == thread.process_id
        parent_process == k.procs[parent_pid]
        child_pid == k.next_pid
        k1 == create_process(k, parent_process.name, parent_process.security)
        k2 == [k1 EXCEPT !.procs[child_pid].parent = parent_pid,
                         !.procs[child_pid].image = parent_process.image,
                         !.procs[parent_pid].children = Append(@, child_pid)]
        child_tid == k2.next_tid
        k3 == create_thread(k2, child_pid, thread.priority, thread.context.rip,
                            env.frame2, thread.user_stack)
    IN IF snap = <<>> THEN Ret(k, Err(ESRCH))
       ELSE IF parent_pid \notin DOMAIN k.procs THEN Ret(k, Err(ESRCH))
       ELSE IF env.frame1 = None THEN Ret(k, Err(ENOMEM))
       ELSE IF env.frame2 = None THEN Ret(k2, Err(ENOMEM))
       ELSE Ret(Scheduler_add_thread(k3, child_tid), Ok(child_pid))

\* userspace::PROGRAMS
ProgramPaths == {"/sbin/init", "/bin/sh", "/bin/cat", "/bin/ls", "/usr/bin/stress"}

\* user memory: the NUL-terminated strings behind the pointers the callers pass;
\* a pointer outside the domain holds bytes read_user_cstring rejects
UserCStrings == <<"/nope", "/bin/sh">>

read_user_cstring(ptr) ==
    IF ptr = 0 THEN Err(EINVAL)
    ELSE IF ptr \in DOMAIN UserCStrings THEN Ok(UserCStrings[ptr])
    ELSE Err(EINVAL)

\* user memory: the null-terminated pointer arrays behind the argv pointers
UserStringArrays == << <<2>>, <<2, 0 - 1>> >>

RECURSIVE read_strings(_)
read_strings(ptrs) ==
    IF ptrs = <<>> THEN Ok(<<>>)
    ELSE LET head == read_user_cstring(Head(ptrs))
             rest == read_strings(Tail(ptrs))
         IN IF ~head.ok THEN head
            ELSE IF ~rest.ok THEN rest
            ELSE [ok |-> TRUE, val |-> <<head.val>> \o rest.val]

read_user_string_array(ptr) ==
    IF ptr = 0 THEN Ok(<<>>)
    ELSE IF ptr \in DOMAIN UserStringArrays THEN read_strings(UserStringArrays[ptr])
    ELSE Err(EINVAL)

\* the LoadedImage of a program, as far as the kernel core reads it
LoadedImage(path) == [path |-> path, entry_point |-> 4194304, user_sp |-> 61440]

\* an exec that stores the image and the name before the loader has answered
sys_exec_installs_first(k, a1, a2, env) ==
    LET snap == current_thread_snapshot(k)
        thread == snap[1]
        tid == k.current
        pid == thread.process_id
        read == IF a1 = 0 THEN Ok("/sbin/init") ELSE read_user_cstring(a1)
        path == read.val
        argv == read_user_string_array(a2)
        loaded == LoadedImage(path)
        k1 == [k EXCEPT !.procs[pid].image = <<loaded>>, !.procs[pid].name = path]
        k2 == IF tid \in DOMAIN k1.threads
              THEN [k1 EXCEPT !.threads[tid].context =
                                  Context_new_user(loaded.entry_point, loaded.user_sp),
                              !.threads[tid].user_stack = loaded.user_sp]
              ELSE k1
    IN IF snap = <<>> THEN Ret(k, Err(ESRCH))
       ELSE IF ~read.ok THEN Ret(k, read)
       ELSE IF ~argv.ok THEN Ret(k, argv)
       ELSE IF path \notin ProgramPaths THEN Ret(k, Err(ESRCH))
       ELSE IF pid \notin DOMAIN k.procs THEN Ret(k, Err(ESRCH))
       ELSE IF ~env.load_ok THEN Ret(k1, Err(EINVAL))
       ELSE IF ~env.exec_ok THEN Ret(k1, Err(EINVAL))
       ELSE Ret(k2, Ok(0))

\* an exec that points every thread of the process at the new entry point
sys_exec_every_thread(k, a1, a2, env) ==
    LET snap == current_thread_snapshot(k)
        thread == snap[1]
        tid == k.current
        pid == thread.process_id
        read == IF a1 = 0 THEN Ok("/sbin/init") ELSE read_user_cstring(a1)
        path == read.val
        argv == read_user_string_array(a2)
        loaded == LoadedImage(path)
        k1 == [k EXCEPT !.procs[pid].image = <<loaded>>, !.procs[pid].name = path]
        k2 == [k1 EXCEPT !.threads = [t \in DOMAIN k1.threads |->
                  IF k1.threads[t].process_id = pid
                  THEN [k1.threads[t] EXCEPT
                          !.context = Context_new_user(loaded.entry_point, loaded.user_sp),
                          !.user_stack = loaded.user_sp]
                  ELSE k1.threads[t]]]
    IN IF snap = <<>> THEN Ret(k, Err(ESRCH))
       ELSE IF ~read.ok THEN Ret(k, read)
       ELSE IF ~argv.ok THEN Ret(k, argv)
       ELSE IF path \notin ProgramPaths THEN Ret(k, Err(ESRCH))
       ELSE IF pid \notin DOMAIN k.procs THEN Ret(k, Err(ESRCH))
       ELSE IF ~env.load_ok THEN Ret(k, Err(EINVAL))
       ELSE IF ~env.exec_ok THEN Ret(k, Err(EINVAL))
       ELSE Ret(k2, Ok(0))

sys_exec(k, a1, a2, env) ==
    LET snap == current_thread_snapshot(k)
        thread == snap[1]
        tid == k.current
        pid == thread.process_id
        read == IF a1 = 0 THEN Ok("/sbin/init") ELSE read_user_cstring(a1)
        path == read.val
        argv == read_user_string_array(a2)
        loaded == LoadedImage(path)
        k1 == [k EXCEPT !.procs[pid].image = <<loaded>>, !.procs[pid].name = path]
        k2 == IF tid \in DOMAIN k1.threads
              THEN [k1 EXCEPT !.threads[tid].context =
                                  Context_new_user(loaded.entry_point, loaded.user_sp),
                              !.threads[tid].user_stack = loaded.user_sp]
              ELSE k1
    IN IF snap = <<>> THEN Ret(k, Err(ESRCH))
       ELSE IF ~read.ok THEN Ret(k, read)
       ELSE IF ~argv.ok THEN Ret(k, argv)
       ELSE IF path \notin ProgramPaths THEN Ret(k, Err(ESRCH))
       ELSE IF pid \notin DOMAIN k.procs THEN Ret(k, Err(ESRCH))
       ELSE IF ~env.load_ok THEN Ret(k, Err(EINVAL))
       ELSE IF ~env.exec_ok THEN Ret(k, Err(EINVAL))
       ELSE Ret(k2, Ok(0))

sys_wait(k, a1) ==
    LET snap == current_thread_snapshot(k)
        thread == snap[1]
        tid == k.current
        index == zombie_index(k.zombies, thread.process_id, a1)
    IN IF snap = <<>> THEN Ret(k, Err(ESRCH))
       ELSE IF index # 0
       THEN Ret([k EXCEPT !.zombies = RemoveAt(@, index)], Ok(k.zombies[index].child))
       ELSE Ret(block_current(register_waiter(k, thread.process_id, tid, a1)), Ok(0))

sys_getpid(k) ==
    LET snap == current_thread_snapshot(k)
    IN IF snap = <<>> THEN Ret(k, Err(ESRCH))
       ELSE Ret(k, Ok(snap[1].process_id))

\* env.frames_ok: every allocate_frame() of the pre-fault loop returned a frame
sys_mmap(k, a1, a2, env) ==
    IF a2 = 0 THEN Ret(k, Err(EINVAL))
    ELSE IF ~env.frames_ok THEN Ret(k, Err(ENOMEM))
    ELSE Ret(k, Ok(a1))

sys_munmap(k) == Ret(k, Ok(0))

sys_brk(k, a1) == Ret(k, Ok(a1))

sys_clone(k, a2) ==
    LET snap == current_thread_snapshot(k)
        thread == snap[1]
        new_stack == IF a2 = 0 THEN thread.kernel_stack ELSE a2
        new_tid == k.next_tid
        k1 == create_thread(k, thread.process_id, thread.priority, thread.context.rip,
                            new_stack, thread.user_stack)
    IN IF snap = <<>> THEN Ret(k, Err(ESRCH))
       ELSE Ret(Scheduler_add_thread(k1, new_tid), Ok(new_tid))

\* a sys_write that buffers the bytes before it rejects fd 0
sys_write_buffers_first(k, a1, a3, env) ==
    IF a3 = 0 THEN Ret(k, Ok(0))
    ELSE IF a1 = 1 \/ a1 = 2
    THEN Ret([k EXCEPT !.stdout = @ \o env.data], Ok(a3))
    ELSE IF a1 = 0 THEN Ret([k EXCEPT !.stdout = @ \o env.data], Err(EPERM))
    ELSE Ret(k, Err(EINVAL))

\* env.data: the a3 bytes behind the user pointer a2
sys_write(k, a1, a3, env) ==
    IF a3 = 0 THEN Ret(k, Ok(0))
    ELSE IF a1 = 1 \/ a1 = 2
    THEN Ret([k EXCEPT !.stdout = @ \o env.data], Ok(a3))
    ELSE IF a1 = 0 THEN Ret(k, Err(EPERM))
    ELSE Ret(k, Err(EINVAL))

Min(a, b) == IF a < b THEN a ELSE b

sys_read(k, a1, a3) ==
    LET n == Min(a3, Len(k.stdin))
    IN IF a1 # 0 THEN Ret(k, Err(EINVAL))
       ELSE IF a3 = 0 THEN Ret(k, Ok(0))
       ELSE Ret([k EXCEPT !.stdin = SubSeq(@, n + 1, Len(@))], Ok(n))

sys_yield(k) == Ret(yield_current(k), Ok(0))

invoke(handler, k, args, env) ==
    CASE handler = "sys_exit" -> sys_exit(k, args.a1)
      [] handler = "sys_fork" -> sys_fork(k, env)
      [] handler = "sys_exec" -> sys_exec(k, args.a1, args.a2, env)
      [] handler = "sys_wait" -> sys_wait(k, args.a1)
      [] handler = "sys_getpid" -> sys_getpid(k)
      [] handler = "sys_mmap" -> sys_mmap(k, args.a1, args.a2, env)
      [] handler = "sys_munmap" -> sys_munmap(k)
      [] handler = "sys_brk" -> sys_brk(k, args.a1)
      [] handler = "sys_clone" -> sys_clone(k, args.a2)
      [] handler = "sys_write" -> sys_write(k, args.a1, args.a3, env)
      [] handler = "sys_read" -> sys_read(k, args.a1, args.a3)
      [] handler = "sys_yield" -> sys_yield(k)
      [] OTHER -> sys_unimplemented(k)

\* handle_syscall: the new state, the SyscallResult, and the place it returned from
Out(k, result, stage) == [k |-> k, result |-> result, stage |-> stage]

\* a handle_syscall that looks for the current thread before the descriptor
handle_syscall_thread_first(k, syscall_number, args, env) ==
    LET d == syscall_descriptor(syscall_number)
        descriptor == d[1]
        snap == current_thread_snapshot(k)
        thread == snap[1]
        process == k.procs[thread.process_id]
        h == invoke(descriptor.handler, k, args, env)
    IN IF snap = <<>> THEN Out(k, Err(ESRCH), "thread")
       ELSE IF thread.process_id \notin DOMAIN k.procs THEN Out(k, Err(ESRCH), "process")
       ELSE IF d = <<>> THEN Out(k, Err(ENOSYS), "descriptor")
       ELSE IF ~is_privileged_enough(process.security, descriptor.max_caller_ring)
       THEN Out(k, Err(EPERM), "ring")
       ELSE IF ~has_capabilities(process.security, descriptor.required_capabilities)
       THEN Out(k, Err(EPERM), "capability")
       ELSE Out(h.k, h.result, "handler")

handle_syscall(k, syscall_number, args, env) ==
    LET d == syscall_descriptor(syscall_number)
        descriptor == d[1]
        snap == current_thread_snapshot(k)
        thread == snap[1]
        process == k.procs[thread.process_id]
        h == invoke(descriptor.handler, k, args, env)
    IN IF d = <<>> THEN Out(k, Err(ENOSYS), "descriptor")
       ELSE IF snap = <<>> THEN Out(k, Err(ESRCH), "thread")
       ELSE IF thread.process_id \notin DOMAIN k.procs THEN Out(k, Err(ESRCH), "process")
       ELSE IF ~is_privileged_enough(process.security, descriptor.max_caller_ring)
       THEN Out(k, Err(EPERM), "ring")
       ELSE IF ~has_capabilities(process.security, descriptor.required_capabilities)
       THEN Out(k, Err(EPERM), "capability")
       ELSE Out(h.k, h.result, "handler")

----------------------------------------------------------------------------
(* Inputs *)

\* the security contexts processes are started with
BootSecurity == {SecurityContext_kernel, SecurityContext_as_user(1000)}

\* the contexts of the processes whose life cycle Spec follows
LifeSecurity == {SecurityContext_kernel}

BootPriorities == {Idle, Normal}

GrantMasks == {CAP_CONSOLE_IO, U64_MAX_MASK}

\* contexts handed to security::register_process
RegisteredContexts ==
    {SecurityContext_kernel,
     with_capabilities(SecurityContext_as_user(1), CAP_PROC_MANAGE \cup CAP_CONSOLE_IO)}

\* subset masks handed to clone_context_with_caps_subset
SubsetMasks ==
    {CAP_NONE, CAP_CONSOLE_IO, CAP_CONSOLE_IO \cup CAP_VM_MANAGE, U64_MAX_MASK}

\* masks handed to set_process_capabilities
SetMasks == {CAP_NONE, CAP_CONSOLE_IO}

ExitCodes == {3}

\* the pid argument of wait: any child, or the process with id 2
WaitTargets == {0, 2}

UserBytes == {120}

\* the argument of brk: null, a user address, the lowest word with the top bit
\* set and the highest word
BrkAddresses == {0, 8192, 2^(WordBits - 1), 2^WordBits - 1}

\* addresses handed out by allocate_frame()
Frames == {20480}

\* syscall numbers whose handler is sys_unimplemented, and two numbers past the table
StubNumbers == {SYS_OPEN, SYS_DEBUG_LOG, SYSCALL_MAX - 1, SYSCALL_MAX, SYSCALL_MAX + 1}

NoArgs == [a1 |-> 0, a2 |-> 0, a3 |-> 0]
NoEnv == [frame1 |-> None, frame2 |-> None, frames_ok |-> TRUE, load_ok |-> TRUE,
          exec_ok |-> TRUE, data |-> <<>>]

\* no slice is being followed: nothing was scheduled yet, or the budget was
\* given up (yield_current) or a syscall ran since
NoSlice == [valid |-> FALSE, budget |-> 0, start |-> 0, ticks |-> 0]

\* the slice that begins when schedule() returns with the scheduler as in k
slice_after_schedule(k) ==
    [valid |-> TRUE, budget |-> k.time_slice_remaining, start |-> k.total_ticks, ticks |-> 0]

\* no operation in progress: the CPU runs user code
Quiet ==
    [kind |-> "none", num |-> 0, args |-> NoArgs, env |-> NoEnv, tid |-> None,
     result |-> Ok(0), ret |-> 0, stage |-> "none", woke |-> 0]

----------------------------------------------------------------------------
(* The locks each operation takes and drops, in program order *)

PROCESS_TABLE == "PROCESS_TABLE"
THREAD_TABLE == "THREAD_TABLE"
SCHEDULER == "SCHEDULER"
SECURITY_CONTEXTS == "SECURITY_CONTEXTS"
ZOMBIE_CHILDREN == "ZOMBIE_CHILDREN"
WAITERS == "WAITERS"

Mutexes == {PROCESS_TABLE, THREAD_TABLE, SCHEDULER, SECURITY_CONTEXTS, ZOMBIE_CHILDREN, WAITERS}

\* m.lock() made inside the function by, and the drop of that guard
Lock(m, by) == <<[a |-> "lock", m |-> m, by |-> by]>>
Unlock(m, by) == <<[a |-> "unlock", m |-> m, by |-> by]>>

\* a guard taken and dropped with nothing locked in between
Held(m, by) == Lock(m, by) \o Unlock(m, by)

locks_register_process == Held(SECURITY_CONTEXTS, "register_process")

locks_remove_context == Held(SECURITY_CONTEXTS, "remove_context")

locks_grant_capabilities == Held(SECURITY_CONTEXTS, "grant_capabilities")

locks_set_thread_state == Held(THREAD_TABLE, "set_thread_state")

\* the thread-table guard lives to the end of the function
locks_create_thread ==
    Lock(THREAD_TABLE, "create_thread")
    \o Held(PROCESS_TABLE, "create_thread")
    \o Unlock(THREAD_TABLE, "create_thread")

\* a create_process that registers the security context before it locks the table
locks_create_process_security_first ==
    Lock(SECURITY_CONTEXTS, "register_process")
    \o Held(PROCESS_TABLE, "create_process")
    \o Unlock(SECURITY_CONTEXTS, "register_process")

locks_create_process ==
    Lock(PROCESS_TABLE, "create_process")
    \o locks_register_process
    \o Unlock(PROCESS_TABLE, "create_process")

locks_grant_process_capabilities ==
    Lock(PROCESS_TABLE, "grant_process_capabilities")
    \o locks_grant_capabilities
    \o Unlock(PROCESS_TABLE, "grant_process_capabilities")

\* Scheduler::add_thread under the wrapper's SCHEDULER.lock()
locks_add_thread ==
    Lock(SCHEDULER, "add_thread")
    \o Held(THREAD_TABLE, "add_thread")
    \o Unlock(SCHEDULER, "add_thread")

locks_remove_thread == Held(SCHEDULER, "remove_thread")

\* Scheduler::schedule: the budget test and the demotion look the current thread
\* up, each under its own guard; the promotion takes a third
locks_schedule(has_current) ==
    Lock(SCHEDULER, "schedule")
    \o (IF has_current
        THEN Held(THREAD_TABLE, "schedule") \o Held(THREAD_TABLE, "schedule")
        ELSE <<>>)
    \o Held(THREAD_TABLE, "schedule")
    \o Unlock(SCHEDULER, "schedule")

\* Scheduler::tick charges the current thread, when there is one
locks_tick(has_current) ==
    Lock(SCHEDULER, "tick")
    \o (IF has_current THEN Held(THREAD_TABLE, "tick") ELSE <<>>)
    \o Unlock(SCHEDULER, "tick")

locks_yield_cpu == Held(SCHEDULER, "yield_cpu")

locks_block_current(has_current) ==
    Lock(SCHEDULER, "block_current")
    \o (IF has_current THEN Held(THREAD_TABLE, "block_current") ELSE <<>>)
    \o Unlock(SCHEDULER, "block_current")

locks_unblock_thread ==
    Lock(SCHEDULER, "unblock_thread")
    \o Held(THREAD_TABLE, "unblock_thread")
    \o Unlock(SCHEDULER, "unblock_thread")

locks_register_waiter == Held(WAITERS, "register_waiter")

locks_take_zombie == Held(ZOMBIE_CHILDREN, "take_zombie")

locks_record_child_exit(has_waiter) ==
    Held(PROCESS_TABLE, "record_child_exit")
    \o Held(ZOMBIE_CHILDREN, "record_child_exit")
    \o Held(WAITERS, "record_child_exit")
    \o (IF has_waiter THEN locks_unblock_thread ELSE <<>>)

\* finalize_thread: last_thread when the exiting thread is the last of its process
locks_finalize_thread(last_thread, has_waiter) ==
    locks_set_thread_state
    \o locks_remove_thread
    \o Held(THREAD_TABLE, "finalize_thread")
    \o Lock(PROCESS_TABLE, "finalize_thread")
    \o (IF last_thread
        THEN locks_remove_context
             \o Unlock(PROCESS_TABLE, "finalize_thread")
             \o locks_record_child_exit(has_waiter)
        ELSE Unlock(PROCESS_TABLE, "finalize_thread"))

locks_timer_interrupt_handler(has_current) ==
    locks_tick(has_current) \o locks_schedule(has_current)

\* the operations of the core a task can be in
TaskOperations ==
    {[name |-> "create_thread", prog |-> locks_create_thread],
     [name |-> "create_process", prog |-> locks_create_process],
     [name |-> "grant_process_capabilities", prog |-> locks_grant_process_capabilities],
     [name |-> "set_thread_state", prog |-> locks_set_thread_state],
     [name |-> "add_thread", prog |-> locks_add_thread],
     [name |-> "yield_cpu", prog |-> locks_yield_cpu],
     [name |-> "unblock_thread", prog |-> locks_unblock_thread],
     [name |-> "register_waiter", prog |-> locks_register_waiter],
     [name |-> "take_zombie", prog |-> locks_take_zombie]}
    \cup {[name |-> "schedule", prog |-> locks_schedule(c)] : c \in BOOLEAN}
    \cup {[name |-> "block_current", prog |-> locks_block_current(c)] : c \in BOOLEAN}
    \cup {[name |-> "finalize_thread", prog |-> locks_finalize_thread(l, w)] :
             l \in BOOLEAN, w \in BOOLEAN}

\* nothing is running at that level
NotRunning == [name |-> "none", prog |-> <<>>, pc |-> 0]

\* scheduler::current_thread, thread::get_thread, process::get_process
locks_current_thread == Held(SCHEDULER, "current_thread")
locks_get_thread == Held(THREAD_TABLE, "get_thread")
locks_get_process == Held(PROCESS_TABLE, "get_process")

locks_current_thread_snapshot == locks_current_thread \o locks_get_thread

\* handle_syscall up to the call of the handler
locks_handle_syscall == locks_current_thread_snapshot \o locks_get_process

locks_sys_exit(last_thread, has_waiter) ==
    locks_current_thread_snapshot \o locks_finalize_thread(last_thread, has_waiter)

locks_sys_fork ==
    locks_current_thread_snapshot
    \o locks_get_process
    \o locks_create_process
    \o Held(PROCESS_TABLE, "sys_fork")
    \o locks_create_thread
    \o locks_add_thread

\* sys_exec: the process-table guard is dropped at the end of its block
locks_sys_exec ==
    locks_current_thread_snapshot
    \o Held(PROCESS_TABLE, "sys_exec")
    \o Held(THREAD_TABLE, "sys_exec")

locks_sys_wait(found) ==
    locks_current_thread_snapshot
    \o locks_take_zombie
    \o (IF found THEN <<>> ELSE locks_register_waiter \o locks_block_current(TRUE))

locks_sys_clone ==
    locks_current_thread_snapshot \o locks_create_thread \o locks_add_thread

\* what a processor can be running: a syscall from its entry on, the timer
\* interrupt handler, or a call of the process API
SmpOperations ==
    {[name |-> "sys_exit", prog |-> locks_handle_syscall \o locks_sys_exit(TRUE, TRUE)],
     [name |-> "sys_fork", prog |-> locks_handle_syscall \o locks_sys_fork],
     [name |-> "sys_exec", prog |-> locks_handle_syscall \o locks_sys_exec],
     [name |-> "sys_wait", prog |-> locks_handle_syscall \o locks_sys_wait(FALSE)],
     [name |-> "sys_clone", prog |-> locks_handle_syscall \o locks_sys_clone],
     [name |-> "sys_yield", prog |-> locks_handle_syscall \o locks_yield_cpu],
     [name |-> "timer_interrupt_handler", prog |-> locks_timer_interrupt_handler(TRUE)],
     [name |-> "grant_process_capabilities", prog |-> locks_grant_process_capabilities]}

MaxCpus == 2
Cpus == 1..MaxCpus

\* every processor outside the kernel, every mutex free (owner 0)
NoSmp == [run |-> [c \in Cpus |-> NotRunning], own |-> [m \in Mutexes |-> 0]]

----------------------------------------------------------------------------
(* process/elf_loader.rs : the ELF loader.  An image is a sequence of bytes; *)
(* the byte at file offset o is image[o + 1].  Addresses of the model stay   *)
(* below 2^31: the high bytes of every 64-bit field are zero.                *)

ELF_MAGIC == <<127, 69, 76, 70>>
EI_CLASS == 4
EI_DATA == 5
EI_VERSION == 6
ELFCLASS32 == 1
ELFCLASS64 == 2
ELFDATA2LSB == 1
PT_LOAD == 1
SHT_RELA == 4
SHT_REL == 9
PF_EXECUTE == 1
PF_WRITE == 2
PAGE_SIZE == 4096
R_X86_64_RELATIVE == 8
R_AARCH64_RELATIVE == 1027

TargetArchs == {"X86_64", "AArch64"}

\* bytes.get(offset..offset + n)
Slice(bytes, offset, n) == SubSeq(bytes, offset + 1, offset + n)

\* uN::from_le_bytes
RECURSIVE from_le_bytes(_)
from_le_bytes(s) == IF s = <<>> THEN 0 ELSE Head(s) + 256 * from_le_bytes(Tail(s))

\* uN::to_le_bytes, n bytes wide
RECURSIVE to_le_bytes(_, _)
to_le_bytes(value, n) ==
    IF n = 0 THEN <<>> ELSE <<value % 256>> \o to_le_bytes(value \div 256, n - 1)

\* read_u16, read_u32, read_u64 with Endianness::Little, the only value
\* parse_header ever constructs
read_le(bytes, offset, n) ==
    IF offset + n > Len(bytes)
    THEN Err("UnexpectedEof")
    ELSE Ok(from_le_bytes(Slice(bytes, offset, n)))

read_u16(bytes, offset) == read_le(bytes, offset, 2)
read_u32(bytes, offset) == read_le(bytes, offset, 4)
read_u64(bytes, offset) == read_le(bytes, offset, 8)

\* the first Err among the reads of a struct literal, in field order
FirstErr(reads) ==
    LET bad == {i \in 1..Len(reads) : ~reads[i].ok}
    IN IF bad = {} THEN 0 ELSE CHOOSE i \in bad : \A j \in bad : i <= j

parse_header64(bytes) ==
    IF Len(bytes) < 64
    THEN Err("InvalidHeader")
    ELSE LET reads == <<read_u16(bytes, 18), read_u64(bytes, 24), read_u64(bytes, 32),
                        read_u64(bytes, 40), read_u16(bytes, 54), read_u16(bytes, 56),
                        read_u16(bytes, 58), read_u16(bytes, 60)>>
         IN IF FirstErr(reads) # 0
            THEN reads[FirstErr(reads)]
            ELSE Ok([class |-> "Elf64", machine |-> reads[1].val, entry |-> reads[2].val,
                     phoff |-> reads[3].val, shoff |-> reads[4].val,
                     phentsize |-> reads[5].val, phnum |-> reads[6].val,
                     shentsize |-> reads[7].val, shnum |-> reads[8].val])

parse_header32(bytes) ==
    IF Len(bytes) < 52
    THEN Err("InvalidHeader")
    ELSE LET reads == <<read_u16(bytes, 18), read_u32(bytes, 24), read_u32(bytes, 28),
                        read_u32(bytes, 32), read_u16(bytes, 42), read_u16(bytes, 44),
                        read_u16(bytes, 46), read_u16(bytes, 48)>>
         IN IF FirstErr(reads) # 0
            THEN reads[FirstErr(reads)]
            ELSE Ok([class |-> "Elf32", machine |-> reads[1].val, entry |-> reads[2].val,
                     phoff |-> reads[3].val, shoff |-> reads[4].val,
                     phentsize |-> reads[5].val, phnum |-> reads[6].val,
                     shentsize |-> reads[7].val, shnum |-> reads[8].val])

parse_header(bytes) ==
    IF Len(bytes) < 16 THEN Err("InvalidHeader")
    ELSE IF Slice(bytes, 0, 4) # ELF_MAGIC THEN Err("InvalidMagic")
    ELSE IF bytes[EI_CLASS + 1] \notin {ELFCLASS32, ELFCLASS64} THEN Err("UnsupportedClass")
    ELSE IF bytes[EI_VERSION + 1] # 1 THEN Err("InvalidHeader")
    ELSE IF bytes[EI_DATA + 1] # ELFDATA2LSB THEN Err("UnsupportedEndianness")
    ELSE IF bytes[EI_CLASS + 1] = ELFCLASS64 THEN parse_header64(bytes)
    ELSE parse_header32(bytes)

\* a validate_machine that accepts every machine id
validate_machine_any_machine(header, arch) == Ok(<<>>)

validate_machine(header, arch) ==
    LET expected == IF arch = "X86_64" THEN 62 ELSE 183
    IN IF header.machine # expected THEN Err("UnsupportedMachine") ELSE Ok(<<>>)

parse_program_header64(bytes) ==
    IF Len(bytes) < 56
    THEN Err("InvalidProgramHeader")
    ELSE LET reads == <<read_u32(bytes, 0), read_u32(bytes, 4), read_u64(bytes, 8),
                        read_u64(bytes, 16), read_u64(bytes, 32), read_u64(bytes, 40),
                        read_u64(bytes, 48)>>
         IN IF FirstErr(reads) # 0
            THEN reads[FirstErr(reads)]
            ELSE Ok([typ |-> reads[1].val, flags |-> reads[2].val, offset |-> reads[3].val,
                     vaddr |-> reads[4].val, filesz |-> reads[5].val,
                     memsz |-> reads[6].val, align |-> reads[7].val])

parse_program_header32(bytes) ==
    IF Len(bytes) < 32
    THEN Err("InvalidProgramHeader")
    ELSE LET reads == <<read_u32(bytes, 0), read_u32(bytes, 4), read_u32(bytes, 8),
                        read_u32(bytes, 16), read_u32(bytes, 20), read_u32(bytes, 24),
                        read_u32(bytes, 28)>>
         IN IF FirstErr(reads) # 0
            THEN reads[FirstErr(reads)]
            ELSE Ok([typ |-> reads[1].val, offset |-> reads[2].val, vaddr |-> reads[3].val,
                     filesz |-> reads[4].val, memsz |-> reads[5].val,
                     flags |-> reads[6].val, align |-> reads[7].val])

parse_program_header(bytes, class) ==
    IF class = "Elf64" THEN parse_program_header64(bytes) ELSE parse_program_header32(bytes)

\* the loop of parse_program_headers from index idx on, headers holding the
\* entries parsed so far
RECURSIVE parse_program_headers_from(_, _, _, _)
parse_program_headers_from(bytes, header, idx, headers) ==
    IF idx >= header.phnum
    THEN Ok(headers)
    ELSE LET start == header.phoff + idx * header.phentsize
             end == start + header.phentsize
         IN IF end > Len(bytes)
            THEN Err("UnexpectedEof")
            ELSE LET ph == parse_program_header(Slice(bytes, start, header.phentsize),
                                                header.class)
                 IN IF ~ph.ok
                    THEN ph
                    ELSE parse_program_headers_from(bytes, header, idx + 1,
                                                    Append(headers, ph.val))

parse_program_headers(bytes, header) ==
    IF header.phentsize = 0
    THEN Err("InvalidProgramHeader")
    ELSE parse_program_headers_from(bytes, header, 0, <<>>)

\* segments.sort_by(vaddr), a stable sort: the place of one more segment
RECURSIVE sorted_insert(_, _)
sorted_insert(segments, segment) ==
    IF segments = <<>> THEN <<segment>>
    ELSE IF segment.vaddr < Head(segments).vaddr THEN <<segment>> \o segments
    ELSE <<Head(segments)>> \o sorted_insert(Tail(segments), segment)

RECURSIVE sort_by_vaddr(_)
sort_by_vaddr(segments) ==
    IF segments = <<>> THEN <<>>
    ELSE sorted_insert(sort_by_vaddr(SubSeq(segments, 1, Len(segments) - 1)),
                       segments[Len(segments)])

\* ph.flags & bit != 0, for a bit that is a power of two
HasFlag(flags, bit) == (flags \div bit) % 2 = 1

\* the loop of build_segments over the program headers from index i on
RECURSIVE build_segments_from(_, _, _, _)
build_segments_from(bytes, program_headers, i, segments) ==
    IF i > Len(program_headers)
    THEN Ok(sort_by_vaddr(segments))
    ELSE LET ph == program_headers[i]
             file_end == ph.offset + ph.filesz
             copy_len == Min(ph.filesz, ph.memsz)
             data == Slice(bytes, ph.offset, copy_len) \o [j \in 1..(ph.memsz - copy_len) |-> 0]
             flags == {"USER_ACCESSIBLE", "PRESENT"}
                          \cup (IF HasFlag(ph.flags, PF_WRITE) THEN {"WRITABLE"} ELSE {})
                          \cup (IF ~HasFlag(ph.flags, PF_EXECUTE) THEN {"NO_EXECUTE"} ELSE {})
         IN IF ph.typ # PT_LOAD \/ ph.memsz = 0
            THEN build_segments_from(bytes, program_headers, i + 1, segments)
            ELSE IF file_end > Len(bytes)
            THEN Err("UnexpectedEof")
            ELSE build_segments_from(bytes, program_headers, i + 1,
                     Append(segments, [vaddr |-> ph.vaddr, mem_size |-> ph.memsz,
                                       file_size |-> ph.filesz, flags |-> flags,
                                       data |-> data]))

build_segments(bytes, header, program_headers) ==
    build_segments_from(bytes, program_headers, 1, <<>>)

parse_section_header64(bytes) ==
    IF Len(bytes) < 64
    THEN Err("InvalidHeader")
    ELSE LET reads == <<read_u32(bytes, 4), read_u64(bytes, 24), read_u64(bytes, 32),
                        read_u64(bytes, 56)>>
         IN IF FirstErr(reads) # 0
            THEN reads[FirstErr(reads)]
            ELSE Ok([sh_type |-> reads[1].val, sh_offset |-> reads[2].val,
                     sh_size |-> reads[3].val, sh_entsize |-> reads[4].val])

parse_section_header32(bytes) ==
    IF Len(bytes) < 40
    THEN Err("InvalidHeader")
    ELSE LET reads == <<read_u32(bytes, 4), read_u32(bytes, 16), read_u32(bytes, 20),
                        read_u32(bytes, 36)>>
         IN IF FirstErr(reads) # 0
            THEN reads[FirstErr(reads)]
            ELSE Ok([sh_type |-> reads[1].val, sh_offset |-> reads[2].val,
                     sh_size |-> reads[3].val, sh_entsize |-> reads[4].val])

parse_section_header(bytes, class) ==
    IF class = "Elf64" THEN parse_section_header64(bytes) ELSE parse_section_header32(bytes)

\* the loop of parse_section_headers from index idx on
RECURSIVE parse_section_headers_from(_, _, _, _)
parse_section_headers_from(bytes, header, idx, sections) ==
    IF idx >= header.shnum
    THEN Ok(sections)
    ELSE LET start == header.shoff + idx * header.shentsize
             end == start + header.shentsize
         IN IF end > Len(bytes)
            THEN Err("UnexpectedEof")
            ELSE LET sh == parse_section_header(Slice(bytes, start, header.shentsize),
                                                header.class)
                 IN IF ~sh.ok
                    THEN sh
                    ELSE parse_section_headers_from(bytes, header, idx + 1,
                                                    Append(sections, sh.val))

parse_section_headers(bytes, header) ==
    IF header.shoff = 0 \/ header.shentsize = 0
    THEN Ok(<<>>)
    ELSE parse_section_headers_from(bytes, header, 0, <<>>)

\* the match on arch of parse_relocation64 and parse_relocation32: type is
\* what the function compares with the RELATIVE kind of the target
relocation_kind(type, arch) ==
    IF arch = "X86_64"
    THEN IF type # R_X86_64_RELATIVE
         THEN Err("RelocationUnsupported") ELSE Ok("X86Relative")
    ELSE IF type # R_AARCH64_RELATIVE
         THEN Err("RelocationUnsupported") ELSE Ok("AArch64Relative")

\* read_i64 and read_i32 are the unsigned reads cast to signed, and the addend
\* is cast back to u64 and written as 8 bytes or, cut to u32, as 4: addend holds
\* the unsigned value read, which gives the same bytes.
\* (info as u32) of the little-endian u64 at offset 8 is its low four bytes.
parse_relocation64(bytes, sh_type, arch) ==
    IF Len(bytes) < 24
    THEN Err("InvalidHeader")
    ELSE LET reads == <<read_u64(bytes, 0), read_u64(bytes, 8),
                        IF sh_type = SHT_RELA THEN read_u64(bytes, 16) ELSE Ok(0)>>
             kind == relocation_kind(read_u32(bytes, 8).val, arch)
         IN IF FirstErr(reads) # 0 THEN reads[FirstErr(reads)]
            ELSE IF ~kind.ok THEN kind
            ELSE Ok([offset |-> reads[1].val, addend |-> reads[3].val, kind |-> kind.val])

\* info & 0xff is info % 256
parse_relocation32(bytes, sh_type, arch) ==
    IF Len(bytes) < 12
    THEN Err("InvalidHeader")
    ELSE LET reads == <<read_u32(bytes, 0), read_u32(bytes, 4),
                        IF sh_type = SHT_RELA THEN read_u32(bytes, 8) ELSE Ok(0)>>
             kind == relocation_kind(reads[2].val % 256, arch)
         IN IF FirstErr(reads) # 0 THEN reads[FirstErr(reads)]
            ELSE IF ~kind.ok THEN kind
            ELSE Ok([offset |-> reads[1].val, addend |-> reads[3].val, kind |-> kind.val])

parse_relocation(bytes, class, sh_type, arch) ==
    IF class = "Elf64" THEN parse_relocation64(bytes, sh_type, arch)
    ELSE parse_relocation32(bytes, sh_type, arch)

\* the while loop of parse_relocations over the entries of one section; the
\* slice &bytes[offset..offset + entsize] panics when it runs past the image
RECURSIVE parse_relocation_entries(_, _, _, _, _, _, _, _)
parse_relocation_entries(bytes, class, sh_type, arch, entsize, offset, end, relocs) ==
    IF offset >= end
    THEN Ok(relocs)
    ELSE IF offset + entsize > Len(bytes)
    THEN Err("panic")
    ELSE LET reloc == parse_relocation(Slice(bytes, offset, entsize), class, sh_type, arch)
         IN IF ~reloc.ok
            THEN reloc
            ELSE parse_relocation_entries(bytes, class, sh_type, arch, entsize,
                                          offset + entsize, end, Append(relocs, reloc.val))

\* the for loop of parse_relocations over the sections from index i on
RECURSIVE parse_relocations_from(_, _, _, _, _, _)
parse_relocations_from(bytes, header, sections, arch, i, relocs) ==
    IF i > Len(sections)
    THEN Ok(relocs)
    ELSE LET section == sections[i]
             entsize == IF section.sh_entsize = 0
                        THEN (IF header.class = "Elf64" THEN 24 ELSE 12)
                        ELSE section.sh_entsize
             end == section.sh_offset + section.sh_size
             entries == parse_relocation_entries(bytes, header.class, section.sh_type,
                                                 arch, entsize, section.sh_offset, end,
                                                 relocs)
         IN IF section.sh_type # SHT_RELA /\ section.sh_type # SHT_REL
            THEN parse_relocations_from(bytes, header, sections, arch, i + 1, relocs)
            ELSE IF end > Len(bytes)
            THEN Err("UnexpectedEof")
            ELSE IF ~entries.ok
            THEN entries
            ELSE parse_relocations_from(bytes, header, sections, arch, i + 1, entries.val)

parse_relocations(bytes, header, sections, arch) ==
    parse_relocations_from(bytes, header, sections, arch, 1, <<>>)

\* index of the first segment that holds addr, 0 when none does
find_segment_mut(segments, addr) ==
    Position(segments, LAMBDA segment :
                 addr >= segment.vaddr /\ addr < segment.vaddr + segment.mem_size)

\* copy_from_slice into data[offset..offset + Len(bytes)]
Patch(data, offset, bytes) ==
    [j \in 1..Len(data) |->
        IF j > offset /\ j <= offset + Len(bytes) THEN bytes[j - offset] ELSE data[j]]

\* the loop of apply_relocations from index i on
RECURSIVE apply_relocations_from(_, _, _, _, _)
apply_relocations_from(segments, relocations, arch, class, i) ==
    IF i > Len(relocations)
    THEN Ok(segments)
    ELSE LET reloc == relocations[i]
             index == find_segment_mut(segments, reloc.offset)
             offset == reloc.offset - segments[index].vaddr
             width == IF class = "Elf32" THEN 4 ELSE 8
             matches == \/ arch = "X86_64" /\ reloc.kind = "X86Relative"
                        \/ arch = "AArch64" /\ reloc.kind = "AArch64Relative"
         IN IF index = 0
            THEN apply_relocations_from(segments, relocations, arch, class, i + 1)
            ELSE IF ~matches
            THEN Err("RelocationUnsupported")
            ELSE IF offset + width > Len(segments[index].data)
            THEN Err("UnexpectedEof")
            ELSE apply_relocations_from(
                     [segments EXCEPT ![index].data =
                         Patch(@, offset, to_le_bytes(reloc.addend, width))],
                     relocations, arch, class, i + 1)

apply_relocations(segments, relocations, arch, class) ==
    apply_relocations_from(segments, relocations, arch, class, 1)

AuxEntry(key, value) == [key |-> key, value |-> value]

build_auxiliary(header, argc, envc) ==
    <<AuxEntry(3, header.phoff), AuxEntry(4, header.phentsize), AuxEntry(5, header.phnum),
      AuxEntry(6, PAGE_SIZE), AuxEntry(7, 0), AuxEntry(9, header.entry),
      AuxEntry(11, 0), AuxEntry(12, 0), AuxEntry(13, 0), AuxEntry(14, 0),
      AuxEntry(17, argc), AuxEntry(23, envc), AuxEntry(0, 0)>>

\* an align_up that rounds down
align_up_rounding_down(value, align) ==
    IF align = 0 THEN value ELSE (value \div align) * align

\* align_up for an alignment that is zero or a power of two
align_up(value, align) ==
    IF align = 0 THEN value ELSE ((value + align - 1) \div align) * align

saturating_sub(a, b) == IF a > b THEN a - b ELSE 0

\* the sum of entry.as_bytes().len() + 1; a string is modelled by its length
RECURSIVE strings_bytes(_)
strings_bytes(strings) ==
    IF strings = <<>> THEN 0 ELSE Head(strings) + 1 + strings_bytes(Tail(strings))

\* AddressSpace::new: a stack window of 2^16 bytes that ends on a multiple of
\* 2^16; the window of the source, 0x7FFF_FFFF_0000 .. 0x8000_0000_0000, moved
\* down to end at 2^30
AddressSpace_new ==
    [heap_start |-> 2^28, heap_end |-> 2^28 + 2^16,
     stack_start |-> 2^30 - 2^16, stack_end |-> 2^30]

\* build_stack.  data is the buffer of total bytes: its length, the 64-bit
\* words written into it by write_u64 (offset -> value) and the byte ranges
\* the strings with their terminators were copied to.  Every failed check of
\* the function returns the same StackOverflow.
build_stack(address_space, argv, envp, aux) ==
    LET argc == Len(argv)
        envc == Len(envp)
        ptr_size == 8
        header_words == 1 + (argc + 1) + (envc + 1) + Len(aux) * 2
        header_bytes == header_words * ptr_size
        strings == argv \o envp
        strings_size == strings_bytes(strings)
        strings_offset == align_up(header_bytes, 16)
        total == align_up(strings_offset + strings_size, 16)
        top == address_space.stack_end
        bottom_limit == address_space.stack_start
        user_sp == ((top - total) \div 16) * 16
        argv_offset == ptr_size
        envp_offset == argv_offset + (argc + 1) * ptr_size
        aux_offset == envp_offset + (envc + 1) * ptr_size
        str_cursor(i) == strings_offset + strings_bytes(SubSeq(strings, 1, i - 1))
        copies == [i \in 1..Len(strings) |-> [at |-> str_cursor(i), len |-> strings[i] + 1]]
        writes == <<[at |-> 0, value |-> argc]>>
                  \o [i \in 1..argc |-> [at |-> argv_offset + (i - 1) * ptr_size,
                                         value |-> user_sp + str_cursor(i)]]
                  \o <<[at |-> argv_offset + argc * ptr_size, value |-> 0]>>
                  \o [i \in 1..envc |-> [at |-> envp_offset + (i - 1) * ptr_size,
                                         value |-> user_sp + str_cursor(argc + i)]]
                  \o <<[at |-> envp_offset + envc * ptr_size, value |-> 0]>>
                  \o [i \in 1..(2 * Len(aux)) |->
                         [at |-> aux_offset + (i - 1) * ptr_size,
                          value |-> IF i % 2 = 1 THEN aux[(i + 1) \div 2].key
                                                 ELSE aux[i \div 2].value]]
    IN IF total > saturating_sub(top, bottom_limit)
       THEN Err("StackOverflow")
       ELSE IF \E i \in 1..Len(copies) : copies[i].at + copies[i].len > total
       THEN Err("StackOverflow")
       ELSE IF \E i \in 1..Len(writes) : writes[i].at + 8 > total
       THEN Err("StackOverflow")
       ELSE Ok([user_sp |-> user_sp, stack_top |-> top, stack_bottom |-> bottom_limit,
                data |-> [len |-> total,
                          words |-> [o \in {writes[i].at : i \in 1..Len(writes)} |->
                                        (CHOOSE w \in {writes[i] : i \in 1..Len(writes)} :
                                             w.at = o).value],
                          strings |-> copies]])

load_executable(image, arch, address_space, argv, envp) ==
    LET header == parse_header(image)
        machine == validate_machine(header.val, arch)
        program_headers == parse_program_headers(image, header.val)
        segments == build_segments(image, header.val, program_headers.val)
        sections == parse_section_headers(image, header.val)
        relocations == parse_relocations(image, header.val, sections.val, arch)
        relocated == apply_relocations(segments.val, relocations.val, arch, header.val.class)
        aux == build_auxiliary(header.val, Len(argv), Len(envp))
        stack == build_stack(address_space, argv, envp, aux)
    IN IF ~header.ok THEN header
       ELSE IF ~machine.ok THEN machine
       ELSE IF ~program_headers.ok THEN program_headers
       ELSE IF ~segments.ok THEN segments
       ELSE IF ~sections.ok THEN sections
       ELSE IF ~relocations.ok THEN relocations
       ELSE IF ~relocated.ok THEN relocated
       ELSE IF relocated.val = <<>> THEN Err("MissingLoadSegment")
       ELSE IF ~stack.ok THEN stack
       ELSE Ok([entry_point |-> header.val.entry, segments |-> relocated.val,
                auxiliary |-> aux, stack |-> stack.val,
                program_header_offset |-> header.val.phoff,
                program_header_entry_size |-> header.val.phentsize,
                program_header_count |-> header.val.phnum])

\* a program header of an ELF64 file, as the linker writes it
ProgramHeader64(typ, flags, offset, vaddr, filesz, memsz) ==
    to_le_bytes(typ, 4) \o to_le_bytes(flags, 4) \o to_le_bytes(offset, 8)
        \o to_le_bytes(vaddr, 8) \o to_le_bytes(vaddr, 8) \o to_le_bytes(filesz, 8)
        \o to_le_bytes(memsz, 8) \o to_le_bytes(PAGE_SIZE, 8)

\* the two instructions of the program
ProgramText == <<144, 195>>

\* a well-formed minimal ELF64 executable: the file header, notes program
\* headers of type PT_NOTE (4), one PT_LOAD program header and the program text
MinimalElf(machine, entry, vaddr, notes) ==
    LET phnum == notes + 1
        text_offset == 64 + 56 * phnum
    IN ELF_MAGIC \o <<ELFCLASS64, ELFDATA2LSB, 1>> \o [i \in 1..9 |-> 0]
        \o to_le_bytes(2, 2) \o to_le_bytes(machine, 2) \o to_le_bytes(1, 4)
        \o to_le_bytes(entry, 8) \o to_le_bytes(64, 8) \o to_le_bytes(0, 8)
        \o to_le_bytes(0, 4) \o to_le_bytes(64, 2) \o to_le_bytes(56, 2)
        \o to_le_bytes(phnum, 2) \o to_le_bytes(64, 2) \o to_le_bytes(0, 2)
        \o to_le_bytes(0, 2)
        \o (IF notes = 1 THEN ProgramHeader64(PT_LOAD + 3, 4, text_offset, vaddr + PAGE_SIZE, 2, 2)
                         ELSE <<>>)
        \o ProgramHeader64(PT_LOAD, 5, text_offset, vaddr, 2, 2)
        \o ProgramText

\* a position-independent executable of either class with one PT_LOAD segment
\* of eight bytes at vaddr and one relocation section, of type sh_type
\* (SHT_RELA or SHT_REL) with the entry size of its kind, holding one entry
\* that relocates the first word of the segment; info is the entry's r_info
RelocElf(class, machine, vaddr, sh_type, info, addend) ==
    LET word == IF class = ELFCLASS64 THEN 8 ELSE 4
        ehsize == IF class = ELFCLASS64 THEN 64 ELSE 52
        phentsize == IF class = ELFCLASS64 THEN 56 ELSE 32
        shentsize == IF class = ELFCLASS64 THEN 64 ELSE 40
        entsize == IF sh_type = SHT_RELA THEN 3 * word ELSE 2 * word
        data_offset == ehsize + phentsize
        rel_offset == data_offset + 8
        shoff == rel_offset + entsize
        ident == ELF_MAGIC \o <<class, ELFDATA2LSB, 1>> \o [i \in 1..9 |-> 0]
        header == ident \o to_le_bytes(3, 2) \o to_le_bytes(machine, 2) \o to_le_bytes(1, 4)
                      \o to_le_bytes(vaddr, word) \o to_le_bytes(ehsize, word)
                      \o to_le_bytes(shoff, word) \o to_le_bytes(0, 4)
                      \o to_le_bytes(ehsize, 2) \o to_le_bytes(phentsize, 2)
                      \o to_le_bytes(1, 2) \o to_le_bytes(shentsize, 2)
                      \o to_le_bytes(1, 2) \o to_le_bytes(0, 2)
        program_header ==
            IF class = ELFCLASS64
            THEN ProgramHeader64(PT_LOAD, 6, data_offset, vaddr, 8, 8)
            ELSE to_le_bytes(PT_LOAD, 4) \o to_le_bytes(data_offset, 4)
                     \o to_le_bytes(vaddr, 4) \o to_le_bytes(vaddr, 4) \o to_le_bytes(8, 4)
                     \o to_le_bytes(8, 4) \o to_le_bytes(6, 4) \o to_le_bytes(PAGE_SIZE, 4)
        entry == to_le_bytes(vaddr, word) \o to_le_bytes(info, word)
                     \o (IF sh_type = SHT_RELA THEN to_le_bytes(addend, word) ELSE <<>>)
        section_header ==
            to_le_bytes(0, 4) \o to_le_bytes(sh_type, 4) \o to_le_bytes(0, word)
                \o to_le_bytes(0, word) \o to_le_bytes(rel_offset, word)
                \o to_le_bytes(entsize, word) \o to_le_bytes(0, 4) \o to_le_bytes(0, 4)
                \o to_le_bytes(word, word) \o to_le_bytes(entsize, word)
    IN header \o program_header \o [i \in 1..8 |-> 0] \o entry \o section_header

\* r_info words: no type, type 3, type 8, symbol 1 with type 8 as ELF32 packs
\* it, and 1027
RelocInfos == {0, 3, R_X86_64_RELATIVE, 256 + R_X86_64_RELATIVE, R_AARCH64_RELATIVE}
RelocAddends == {0, 4660}

\* the inputs of the loader
ElfMachines == {62, 183, 3}
ElfEntries == {4096, 4198400}
ElfVaddrs == {65536, 4194304}
CorruptOffsets == {0, 3, EI_CLASS, EI_DATA, EI_VERSION}
CorruptBytes == {0, 1}
\* string lengths: short ones and the ones that fill the stack window to the byte
StringLengths == {0, 7, 65271, 65295, 65296}

ElfNotes == {0, 1}
MaxArgs == 2

\* no image built yet; result is <<>> until a load, then <<the Result>>
NoElf ==
    [image |-> <<>>, built |-> FALSE,
     made |-> [machine |-> 0, entry |-> 0, vaddr |-> 0, notes |-> 0],
     arch |-> "none", result |-> <<>>]

NoStack == [argv |-> <<>>, envp |-> <<>>, result |-> <<>>]

----------------------------------------------------------------------------
(* Initial state: the statics as constructed *)

Init ==
    /\ procs = <<>>
    /\ next_pid = 1
    /\ threads = <<>>
    /\ next_tid = 1
    /\ queues = [i \in Lanes |-> <<>>]
    /\ current = None
    /\ idle_thread = None
    /\ time_slice_remaining = 0
    /\ total_ticks = 0
    /\ sec = <<>>
    /\ zombies = <<>>
    /\ waiters = <<>>
    /\ stdout = <<>>
    /\ stdin = <<>>
    /\ res = Quiet
    /\ woken = [t \in Tids |-> 0]
    /\ rq = [i \in Lanes |-> <<>>]
    /\ rq_seq = [x \in Lanes \X Tids |-> 0]
    /\ rq_count = 0
    /\ rq_last = [op |-> "new", tid |-> None]
    /\ slice = NoSlice
    /\ owner = [m \in Mutexes |-> "free"]
    /\ task = NotRunning
    /\ irq = NotRunning
    /\ fdt = FileDescriptorTable_default
    /\ elf = NoElf
    /\ stk = NoStack
    /\ smp = NoSmp

----------------------------------------------------------------------------
(* Kernel entry points other than syscalls *)

\* a process is started with one thread, which is queued and scheduled
\* (create_process, create_thread, scheduler::add_thread, scheduler::schedule)
StartProcess(k, security, priority) ==
    LET pid == k.next_pid
        tid == k.next_tid
        k1 == create_process(k, "test", security)
        k2 == create_thread(k1, pid, priority, 8192, 12288, 16384)
        k3 == Scheduler_add_thread(k2, tid)
    IN schedule(k3).k

Boot(securities, priorities, maxPid, maxTid) ==
    /\ res = Quiet
    /\ next_pid <= maxPid
    /\ next_tid <= maxTid
    /\ \E security \in securities, priority \in priorities :
          /\ Commit(StartProcess(K, security, priority))
          /\ slice' = slice_after_schedule(StartProcess(K, security, priority))
    /\ UNCHANGED <<res, woken, rqvars, lockvars, unitvars>>

\* timer_interrupt_handler, first half
Tick(maxTicks) ==
    /\ res = Quiet
    /\ total_ticks < maxTicks
    /\ Commit(tick(K))
    /\ slice' = [slice EXCEPT !.ticks = @ + 1]
    /\ UNCHANGED <<res, woken, rqvars, lockvars, unitvars>>

\* timer_interrupt_handler, second half
Schedule ==
    /\ res = Quiet
    /\ Commit(schedule(K).k)
    /\ slice' = slice_after_schedule(schedule(K).k)
    /\ UNCHANGED <<res, woken, rqvars, lockvars, unitvars>>

\* timer_interrupt_handler: tick() and then schedule()
TimerInterruptHandler(maxTicks) ==
    /\ res = Quiet
    /\ total_ticks < maxTicks
    /\ Commit(schedule(tick(K)).k)
    /\ slice' = NoSlice
    /\ UNCHANGED <<res, woken, rqvars, lockvars, unitvars>>

\* scheduler::yield_cpu
YieldCpu ==
    /\ res = Quiet
    /\ Commit(yield_current(K))
    /\ slice' = NoSlice
    /\ UNCHANGED <<res, woken, rqvars, lockvars, unitvars>>

Grant ==
    /\ res = Quiet
    /\ \E pid \in Pids, mask \in GrantMasks :
          Commit(grant_process_capabilities(K, pid, mask))
    /\ UNCHANGED <<res, woken, rqvars, slice, lockvars, unitvars>>

SetCaps ==
    /\ res = Quiet
    /\ \E pid \in Pids, capabilities \in SetMasks :
          Commit(set_process_capabilities(K, pid, capabilities))
    /\ UNCHANGED <<res, woken, rqvars, slice, lockvars, unitvars>>

\* security::register_process with the contexts the module's tests register
SecRegister ==
    /\ res = Quiet
    /\ \E pid \in Pids, context \in RegisteredContexts :
          sec' = register_process(sec, pid, context)
    /\ UNCHANGED <<procs, next_pid, threads, next_tid, queues, current, idle_thread,
                   time_slice_remaining, total_ticks, zombies, waiters, stdout, stdin,
                   res, woken, rqvars, slice, lockvars, unitvars>>

\* security::grant_capabilities
SecGrant ==
    /\ res = Quiet
    /\ \E pid \in Pids :
          sec' = security_grant_capabilities(sec, pid, CAP_VM_MANAGE)
    /\ UNCHANGED <<procs, next_pid, threads, next_tid, queues, current, idle_thread,
                   time_slice_remaining, total_ticks, zombies, waiters, stdout, stdin,
                   res, woken, rqvars, slice, lockvars, unitvars>>

\* security::clone_context_with_caps_subset
SecCloneSubset ==
    /\ res = Quiet
    /\ \E parent_pid \in Pids, child_pid \in Pids, caps_subset \in SubsetMasks :
          sec' = clone_context_with_caps_subset(sec, parent_pid, child_pid, caps_subset).table
    /\ UNCHANGED <<procs, next_pid, threads, next_tid, queues, current, idle_thread,
                   time_slice_remaining, total_ticks, zombies, waiters, stdout, stdin,
                   res, woken, rqvars, slice, lockvars, unitvars>>

\* feed_stdin
FeedStdin ==
    /\ res = Quiet
    /\ \E bytes \in [1..1 -> UserBytes] :
          /\ Len(stdin) + Len(bytes) <= MaxStdio
          /\ Commit([K EXCEPT !.stdin = @ \o bytes])
    /\ UNCHANGED <<res, woken, rqvars, slice, lockvars, unitvars>>

\* take_stdout
TakeStdout ==
    /\ res = Quiet
    /\ stdout # <<>>
    /\ Commit([K EXCEPT !.stdout = <<>>])
    /\ UNCHANGED <<res, woken, rqvars, slice, lockvars, unitvars>>

----------------------------------------------------------------------------
(* Syscalls: syscall_handler(number, a1..a6) run by the current thread *)

\* the waiter an exit of the current thread is about to wake, <<>> when none
exit_wakes(k) ==
    LET t == k.current
        pid == k.threads[t].process_id
        parent == k.procs[pid].parent
        index == waiter_index(k.waiters, parent, pid)
    IN IF /\ t \in DOMAIN k.threads
          /\ pid \in DOMAIN k.procs
          /\ SelectSeq(k.procs[pid].threads, LAMBDA id : id # t) = <<>>
          /\ parent # None
          /\ index # 0
          /\ k.waiters[index].tid \in DOMAIN k.threads
          /\ k.threads[k.waiters[index].tid].state = "Blocked"
       THEN <<k.waiters[index]>>
       ELSE <<>>

woken_after(k, n, out) ==
    IF out.stage # "handler" \/ k.current \notin Tids THEN woken
    ELSE IF n = SYS_WAIT THEN [woken EXCEPT ![k.current] = 0]
    ELSE IF n = SYS_EXIT
         THEN LET w == exit_wakes(k)
              IN IF w # <<>> /\ w[1].target = None
                 THEN [woken EXCEPT ![k.current] = 0, ![w[1].tid] = k.threads[k.current].process_id]
                 ELSE [woken EXCEPT ![k.current] = 0]
    ELSE woken

DoSyscall(n, args, env) ==
    LET out == handle_syscall(K, n, args, env)
    IN /\ res = Quiet
       /\ Commit(out.k)
       /\ res' = [kind |-> "syscall", num |-> n, args |-> args, env |-> env, tid |-> current,
                  result |-> out.result, ret |-> syscall_handler_ret(out.result),
                  stage |-> out.stage,
                  woke |-> IF current \in Tids THEN woken[current] ELSE 0]
       /\ woken' = woken_after(K, n, out)
       /\ slice' = NoSlice
       /\ UNCHANGED <<rqvars, lockvars, unitvars>>

SysExit ==
    \E status \in ExitCodes : DoSyscall(SYS_EXIT, [NoArgs EXCEPT !.a1 = status], NoEnv)

SysFork(maxPid, maxTid) ==
    \E f1 \in Frames \cup {None}, f2 \in Frames \cup {None} :
        /\ (f1 = None => f2 = None)
        /\ \/ next_pid <= maxPid /\ next_tid <= maxTid
           \/ f1 = None
           \/ handle_syscall(K, SYS_FORK, NoArgs, NoEnv).stage # "handler"
        /\ DoSyscall(SYS_FORK, NoArgs, [NoEnv EXCEPT !.frame1 = f1, !.frame2 = f2])

SysExec ==
    \E ptr \in 0..(Len(UserCStrings) + 1), argv \in 0..(Len(UserStringArrays) + 1),
       load_ok \in BOOLEAN, exec_ok \in BOOLEAN :
        /\ (~load_ok => exec_ok)
        /\ (argv # 0 => load_ok /\ exec_ok)
        /\ DoSyscall(SYS_EXEC, [NoArgs EXCEPT !.a1 = ptr, !.a2 = argv],
                     [NoEnv EXCEPT !.load_ok = load_ok, !.exec_ok = exec_ok])

SysWait(targets) ==
    \E pid \in targets : DoSyscall(SYS_WAIT, [NoArgs EXCEPT !.a1 = pid], NoEnv)

SysGetpid == DoSyscall(SYS_GETPID, NoArgs, NoEnv)

SysMmap ==
    \E length \in {0, 4097}, ok \in BOOLEAN :
        DoSyscall(SYS_MMAP, [NoArgs EXCEPT !.a1 = 4096, !.a2 = length],
                  [NoEnv EXCEPT !.frames_ok = ok])

SysMunmap == DoSyscall(SYS_MUNMAP, [NoArgs EXCEPT !.a1 = 4096, !.a2 = 4096], NoEnv)

SysBrk == \E addr \in BrkAddresses : DoSyscall(SYS_BRK, [NoArgs EXCEPT !.a1 = addr], NoEnv)

SysClone(maxTid) ==
    /\ \/ next_tid <= maxTid
       \/ handle_syscall(K, SYS_CLONE, NoArgs, NoEnv).stage # "handler"
    /\ \E stack \in {0} : DoSyscall(SYS_CLONE, [NoArgs EXCEPT !.a2 = stack], NoEnv)

SysWrite ==
    \E fd \in {0, 1, 3}, len \in 0..MaxStdio :
        /\ Len(stdout) + len <= MaxStdio
        /\ \E data \in [1..len -> UserBytes] :
              DoSyscall(SYS_WRITE, [NoArgs EXCEPT !.a1 = fd, !.a2 = 4096, !.a3 = len],
                        [NoEnv EXCEPT !.data = data])

SysRead ==
    \E fd \in 0..1, len \in 0..MaxStdio :
        DoSyscall(SYS_READ, [NoArgs EXCEPT !.a1 = fd, !.a2 = 4096, !.a3 = len], NoEnv)

SysYield == DoSyscall(SYS_YIELD, NoArgs, NoEnv)

SysStub == \E n \in StubNumbers : DoSyscall(n, NoArgs, NoEnv)

\* the syscall returns to its caller (sysretq / eret)
Return ==
    /\ res # Quiet
    /\ res' = Quiet
    /\ UNCHANGED <<kvars, woken, rqvars, slice, lockvars, unitvars>>

----------------------------------------------------------------------------
(* Kernel API called directly (boot code, drivers, tests) *)

\* thread::create_thread for any process id, present or not
CreateThread(pids, priorities, maxTid) ==
    /\ res = Quiet
    /\ next_tid <= maxTid
    /\ \E pid \in pids, priority \in priorities :
          Commit(create_thread(K, pid, priority, 8192, 12288, 16384))
    /\ UNCHANGED <<res, woken, rqvars, slice, lockvars, unitvars>>

\* thread::set_thread_state(tid, ThreadState::Ready)
SetThreadReady ==
    /\ res = Quiet
    /\ \E tid \in DOMAIN threads : Commit(set_thread_state(K, tid, "Ready"))
    /\ UNCHANGED <<res, woken, rqvars, slice, lockvars, unitvars>>

\* scheduler::add_thread
AddThread ==
    /\ res = Quiet
    /\ \E tid \in Tids : Commit(Scheduler_add_thread(K, tid))
    /\ UNCHANGED <<res, woken, rqvars, slice, lockvars, unitvars>>

\* scheduler::block_current_thread
BlockCurrent ==
    /\ res = Quiet
    /\ Commit(block_current(K))
    /\ UNCHANGED <<res, woken, rqvars, slice, lockvars, unitvars>>

\* scheduler::unblock_thread
UnblockThread ==
    /\ res = Quiet
    /\ \E tid \in Tids : Commit(unblock_thread(K, tid))
    /\ UNCHANGED <<res, woken, rqvars, slice, lockvars, unitvars>>

----------------------------------------------------------------------------
(* The same operations seen lock by lock: a kernel operation in task context,
   and the timer interrupt that can arrive between any two of its steps *)

\* the lock() or guard drop the program p is at
Event(p) == p.prog[p.pc]

\* spin::Mutex::lock returns only once the mutex is free
CanStep(p) == Event(p).a = "lock" => owner[Event(p).m] = "free"

OwnerAfter(p, who) ==
    [owner EXCEPT ![Event(p).m] = IF Event(p).a = "lock" THEN who ELSE "free"]

Advance(p) == IF p.pc < Len(p.prog) THEN [p EXCEPT !.pc = @ + 1] ELSE NotRunning

\* a kernel operation is entered from task context
TaskCall ==
    /\ task = NotRunning
    /\ irq = NotRunning
    /\ \E op \in TaskOperations : task' = [name |-> op.name, prog |-> op.prog, pc |-> 1]
    /\ UNCHANGED <<kvars, res, woken, rqvars, slice, owner, irq, unitvars>>

\* it takes or drops its next lock; a lock that is held is spun on
TaskStep ==
    /\ task # NotRunning
    /\ irq = NotRunning
    /\ CanStep(task)
    /\ owner' = OwnerAfter(task, "task")
    /\ task' = Advance(task)
    /\ UNCHANGED <<kvars, res, woken, rqvars, slice, irq, unitvars>>

\* the timer fires: timer_interrupt_handler starts on the interrupted stack
TimerInterrupt ==
    /\ irq = NotRunning
    /\ \E has_current \in BOOLEAN :
          irq' = [name |-> "timer_interrupt_handler",
                  prog |-> locks_timer_interrupt_handler(has_current), pc |-> 1]
    /\ UNCHANGED <<kvars, res, woken, rqvars, slice, owner, task, unitvars>>

\* the handler takes or drops its next lock; the interrupted code does not run
\* until the handler has returned
IrqStep ==
    /\ irq # NotRunning
    /\ CanStep(irq)
    /\ owner' = OwnerAfter(irq, "irq")
    /\ irq' = Advance(irq)
    /\ UNCHANGED <<kvars, res, woken, rqvars, slice, task, unitvars>>

----------------------------------------------------------------------------
(* Several processors in the kernel at once, interleaving at lock() and at   *)
(* the drop of a guard                                                       *)

\* a processor enters the kernel: a syscall, a timer interrupt or an API call
SmpCall ==
    /\ \E c \in Cpus, op \in SmpOperations :
          /\ smp.run[c] = NotRunning
          /\ smp' = [smp EXCEPT !.run[c] = [name |-> op.name, prog |-> op.prog, pc |-> 1]]
    /\ UNCHANGED <<kvars, res, woken, rqvars, slice, lockvars, fdt, elf, stk>>

\* a processor takes its next lock, which must be free, or drops a guard
SmpStep ==
    /\ \E c \in Cpus :
          /\ smp.run[c] # NotRunning
          /\ Event(smp.run[c]).a = "lock" => smp.own[Event(smp.run[c]).m] = 0
          /\ smp' = [run |-> [smp.run EXCEPT ![c] = Advance(smp.run[c])],
                     own |-> [smp.own EXCEPT ![Event(smp.run[c]).m] =
                                 IF Event(smp.run[c]).a = "lock" THEN c ELSE 0]]
    /\ UNCHANGED <<kvars, res, woken, rqvars, slice, lockvars, fdt, elf, stk>>

----------------------------------------------------------------------------
(* The ELF loader on its own *)

\* a well-formed executable arrives
ElfBuild ==
    /\ \E machine \in ElfMachines, entry \in ElfEntries, vaddr \in ElfVaddrs,
          notes \in ElfNotes :
          elf' = [image |-> MinimalElf(machine, entry, vaddr, notes), built |-> TRUE,
                  made |-> [machine |-> machine, entry |-> entry, vaddr |-> vaddr,
                            notes |-> notes],
                  arch |-> "none", result |-> <<>>]
    /\ UNCHANGED <<kvars, res, woken, rqvars, slice, lockvars, fdt, stk, smp>>

\* a position-independent executable with one relocation entry arrives
RelocBuild ==
    /\ \E class \in {ELFCLASS32, ELFCLASS64}, machine \in {62, 183},
          sh_type \in {SHT_RELA, SHT_REL}, info \in RelocInfos, addend \in RelocAddends :
          elf' = [image |-> RelocElf(class, machine, 65536, sh_type, info, addend),
                  built |-> TRUE,
                  made |-> [machine |-> machine, entry |-> 65536, vaddr |-> 65536,
                            notes |-> 0, class |-> class, sh_type |-> sh_type,
                            info |-> info, addend |-> addend],
                  arch |-> "none", result |-> <<>>]
    /\ UNCHANGED <<kvars, res, woken, rqvars, slice, lockvars, fdt, stk, smp>>

\* one byte of the identification of the image is overwritten
ElfCorrupt ==
    /\ elf.built
    /\ \E offset \in CorruptOffsets, byte \in CorruptBytes :
          /\ elf.image[offset + 1] # byte
          /\ elf' = [elf EXCEPT !.image[offset + 1] = byte, !.arch = "none",
                                !.result = <<>>]
    /\ UNCHANGED <<kvars, res, woken, rqvars, slice, lockvars, fdt, stk, smp>>

\* load_executable(image, arch, &AddressSpace::new(..), &[], &[])
ElfLoad ==
    /\ elf.built
    /\ \E arch \in TargetArchs :
          elf' = [elf EXCEPT !.arch = arch,
                             !.result = <<load_executable(elf.image, arch, AddressSpace_new,
                                                          <<>>, <<>>)>>]
    /\ UNCHANGED <<kvars, res, woken, rqvars, slice, lockvars, fdt, stk, smp>>

\* the auxiliary vector of a minimal executable
MinimalAux(argc, envc) ==
    build_auxiliary(parse_header(MinimalElf(62, 4096, 65536, 0)).val, argc, envc)

\* build_stack for an argv that is one string longer
StackArg ==
    /\ Len(stk.argv) < MaxArgs
    /\ \E length \in StringLengths :
          LET argv == Append(stk.argv, length)
          IN stk' = [argv |-> argv, envp |-> stk.envp,
                     result |-> <<build_stack(AddressSpace_new, argv, stk.envp,
                                              MinimalAux(Len(argv), Len(stk.envp)))>>]
    /\ UNCHANGED <<kvars, res, woken, rqvars, slice, lockvars, fdt, elf, smp>>

\* build_stack for an envp that is one string longer
StackEnv ==
    /\ Len(stk.envp) < MaxArgs
    /\ \E length \in StringLengths :
          LET envp == Append(stk.envp, length)
          IN stk' = [argv |-> stk.argv, envp |-> envp,
                     result |-> <<build_stack(AddressSpace_new, stk.argv, envp,
                                              MinimalAux(Len(stk.argv), Len(envp)))>>]
    /\ UNCHANGED <<kvars, res, woken, rqvars, slice, lockvars, fdt, elf, smp>>

----------------------------------------------------------------------------
(* The stand-alone file-descriptor table *)

FdInsert ==
    /\ \E fd \in 0..MaxFd, inheritable \in BOOLEAN :
          fdt' = FileDescriptorTable_insert(fdt, fd, 0, inheritable, "Stdout")
    /\ UNCHANGED <<kvars, res, woken, rqvars, slice, lockvars, elfvars, smp>>

FdAllocate ==
    /\ fdt.next_fd <= MaxFd
    /\ \E inheritable \in BOOLEAN :
          fdt' = FileDescriptorTable_allocate(fdt, 0, inheritable, "Stdout").table
    /\ UNCHANGED <<kvars, res, woken, rqvars, slice, lockvars, elfvars, smp>>

FdRemove ==
    /\ \E fd \in 0..MaxFd : fdt' = FileDescriptorTable_remove(fdt, fd)
    /\ UNCHANGED <<kvars, res, woken, rqvars, slice, lockvars, elfvars, smp>>

\* sys_fork: the child goes on with parent_process.file_descriptors.inherit()
FdInherit ==
    /\ fdt' = FileDescriptorTable_inherit(fdt)
    /\ UNCHANGED <<kvars, res, woken, rqvars, slice, lockvars, elfvars, smp>>

----------------------------------------------------------------------------
(* The stand-alone run queue: RunQueue::enqueue, dequeue, pick_next, remove *)

RqEnqueue ==
    /\ rq_count < MaxRqOps
    /\ \E tid \in 1..MaxTid, priority \in Lanes :
          /\ rq' = enqueue(rq, tid, priority)
          /\ rq_seq' = IF Contains(rq[priority], tid) THEN rq_seq
                       ELSE [rq_seq EXCEPT ![<<priority, tid>>] = rq_count + 1]
          /\ rq_last' = [op |-> "enqueue", tid |-> tid]
    /\ rq_count' = rq_count + 1
    /\ UNCHANGED <<kvars, res, woken, slice, lockvars, unitvars>>

RqDequeue ==
    /\ rq_count < MaxRqOps
    /\ \E priority \in Lanes :
          /\ rq' = dequeue(rq, priority).queues
          /\ rq_last' = [op |-> "dequeue", tid |-> dequeue(rq, priority).tid]
    /\ rq_count' = rq_count + 1
    /\ UNCHANGED <<rq_seq, kvars, res, woken, slice, lockvars, unitvars>>

RqRemove ==
    /\ rq_count < MaxRqOps
    /\ \E tid \in 1..MaxTid :
          /\ rq' = remove(rq, tid)
          /\ rq_last' = [op |-> "remove", tid |-> tid]
    /\ rq_count' = rq_count + 1
    /\ UNCHANGED <<rq_seq, kvars, res, woken, slice, lockvars, unitvars>>

RqPickNext ==
    /\ rq_count < MaxRqOps
    /\ rq' = pick_next(rq, None).queues
    /\ rq_last' = [op |-> "pick_next", tid |-> pick_next(rq, None).tid]
    /\ rq_count' = rq_count + 1
    /\ UNCHANGED <<rq_seq, kvars, res, woken, slice, lockvars, unitvars>>

----------------------------------------------------------------------------
(* Specifications *)

\* process life cycle: the first process is started, everything else descends from
\* it by fork and clone; wait, exit, yield, and the scheduler
Next ==
    \/ Boot(LifeSecurity, {Normal}, 1, MaxTid)
    \/ Schedule
    \/ SysExit
    \/ SysFork(MaxPid, MaxTid)
    \/ SysWait(WaitTargets)
    \/ SysClone(MaxTid)
    \/ SysYield
    \/ Return

Spec == Init /\ [][Next]_vars

\* wait and exit among single-threaded processes, related by fork or not
NextWait ==
    \/ Boot(LifeSecurity, {Normal}, WaitMaxPid, WaitMaxTid)
    \/ Schedule
    \/ SysExit
    \/ SysFork(WaitMaxPid, WaitMaxTid)
    \/ SysWait(WaitTargets)
    \/ SysYield
    \/ Return

SpecWait == Init /\ [][NextWait]_vars

\* the waiting workload under the timer: ticks, yields and clones added
NextBlock ==
    \/ Boot(LifeSecurity, {Normal}, 1, BlockMaxTid)
    \/ Tick(BlockMaxTicks)
    \/ Schedule
    \/ YieldCpu
    \/ SysExit
    \/ SysFork(BlockMaxPid, BlockMaxTid)
    \/ SysWait(WaitTargets)
    \/ SysClone(BlockMaxTid)
    \/ SysYield
    \/ Return

SpecBlock == Init /\ [][NextBlock]_vars

\* the syscall gate as one calling thread meets it between two timer interrupts:
\* every syscall number, a caller of either security context, capability grants,
\* the stdio shim
NextGate ==
    \/ Boot(BootSecurity, {Normal}, 1, GateMaxTid)
    \/ Grant
    \/ FeedStdin
    \/ TakeStdout
    \/ SysExit
    \/ SysFork(GateMaxPid, GateMaxTid)
    \/ SysExec
    \/ SysWait({0})
    \/ SysGetpid
    \/ SysMmap
    \/ SysMunmap
    \/ SysBrk
    \/ SysClone(GateMaxTid)
    \/ SysWrite
    \/ SysRead
    \/ SysYield
    \/ SysStub
    \/ Return

SpecGate == Init /\ [][NextGate]_vars

\* the scheduler and thread API driven directly, next to the life-cycle syscalls
NextApi ==
    \/ Boot(LifeSecurity, {Normal}, 1, ApiMaxTid)
    \/ CreateThread({1}, {Normal}, ApiMaxTid)
    \/ AddThread
    \/ BlockCurrent
    \/ UnblockThread
    \/ Schedule
    \/ SysExit
    \/ SysFork(ApiMaxPid, ApiMaxTid)
    \/ SysWait({0})
    \/ SysClone(ApiMaxTid)
    \/ SysYield
    \/ Return

SpecApi == Init /\ [][NextApi]_vars

\* time slices: threads of the two lowest priorities (budgets 1 and 5), the
\* timer and the scheduler entry points
NextTick ==
    \/ Boot(LifeSecurity, {Idle, Low}, 1, TickMaxTid)
    \/ CreateThread({1}, {Idle, Low}, TickMaxTid)
    \/ AddThread
    \/ Tick(TickMaxTicks)
    \/ Schedule
    \/ YieldCpu

SpecTick == Init /\ [][NextTick]_vars

\* rotation: processes of every priority under the timer, and the thread API
\* that sets a thread Ready
NextRotate ==
    \/ Boot(LifeSecurity, Lanes, RotateMaxTid, RotateMaxTid)
    \/ SetThreadReady
    \/ Tick(RotateMaxTicks)
    \/ Schedule
    \/ YieldCpu

SpecRotate == Init /\ [][NextRotate]_vars

\* the capability masks over the life of processes: creation, fork, grants and
\* replacements of the mask, exit
NextMask ==
    \/ Boot(BootSecurity, {Normal}, GateMaxPid, GateMaxTid)
    \/ Schedule
    \/ Grant
    \/ SetCaps
    \/ SysFork(GateMaxPid, GateMaxTid)
    \/ SysExit
    \/ Return

SpecMask == Init /\ [][NextMask]_vars

\* runnable threads of the two lowest priorities under the timer interrupt
\* alone, which keeps interrupting: the handler runs again whenever it can
FairMaxTid == 3
FairMaxTicks == 20

NextFair ==
    \/ Boot(LifeSecurity, {Idle, Low}, FairMaxTid, FairMaxTid)
    \/ TimerInterruptHandler(FairMaxTicks)

\* a step of the timer interrupt handler by what it takes to start and what
\* only it does: the handler has no condition but the model's guard, and it is
\* the one step that counts a tick
TimerFires ==
    /\ res = Quiet
    /\ total_ticks < FairMaxTicks
    /\ total_ticks' = total_ticks + 1

SpecFair == Init /\ [][NextFair]_vars /\ WF_total_ticks(TimerFires)

\* the locks of the core under several processors
NextSmp ==
    \/ SmpCall
    \/ SmpStep

SpecSmp == Init /\ [][NextSmp]_vars

\* the ELF loader on executables that carry relocations
NextReloc ==
    \/ RelocBuild
    \/ ElfLoad

SpecReloc == Init /\ [][NextReloc]_vars

\* the ELF loader alone
NextElf ==
    \/ ElfBuild
    \/ ElfCorrupt
    \/ ElfLoad

SpecElf == Init /\ [][NextElf]_vars

\* build_stack alone
NextStack ==
    \/ StackArg
    \/ StackEnv

SpecStack == Init /\ [][NextStack]_vars

\* capabilities over fork: grants and masks set on either side of a fork
NextCaps ==
    \/ Boot(BootSecurity, {Normal}, 1, GateMaxTid)
    \/ Schedule
    \/ Grant
    \/ SetCaps
    \/ SysFork(GateMaxPid, GateMaxTid)
    \/ SysYield
    \/ Return

SpecCaps == Init /\ [][NextCaps]_vars

\* the security-context table on its own
NextSec ==
    \/ SecRegister
    \/ SecGrant
    \/ SecCloneSubset

SpecSec == Init /\ [][NextSec]_vars

\* the locks of the core, one lock() or guard drop per step
NextLock ==
    \/ TaskCall
    \/ TaskStep
    \/ TimerInterrupt
    \/ IrqStep

SpecLock == Init /\ [][NextLock]_vars

\* the file-descriptor table alone
NextFd ==
    \/ FdInsert
    \/ FdAllocate
    \/ FdRemove
    \/ FdInherit

SpecFd == Init /\ [][NextFd]_vars

\* the order of the checks in handle_syscall: callers with and without a current
\* thread, threads of a process id that is not in the process table
NextDispatch ==
    \/ Boot(BootSecurity, {Normal}, DispMaxPid, DispMaxTid)
    \/ CreateThread({DispMaxPid + 1}, {Normal}, DispMaxTid)
    \/ AddThread
    \/ Schedule
    \/ SysExit
    \/ SysWait({0})
    \/ SysGetpid
    \/ SysYield
    \/ SysStub
    \/ Return

SpecDispatch == Init /\ [][NextDispatch]_vars

\* the run queue alone
NextRQ == RqEnqueue \/ RqPickNext \/ RqDequeue \/ RqRemove

SpecRQ == Init /\ [][NextRQ]_vars

----------------------------------------------------------------------------
(* Observers used by the properties below *)

\* the threads whose ThreadState is Running
RunningThreads == {t \in DOMAIN threads : threads[t].state = "Running"}

\* this step is syscall_handler(n, ...) run to completion
Calls(n) == res = Quiet /\ res'.kind = "syscall" /\ res'.num = n

\* this step is a syscall n whose handler was invoked
Handled(n) == Calls(n) /\ res'.stage = "handler"

\* the caller of the syscall of this step has a thread and a process
HasCaller == current \in DOMAIN threads /\ threads[current].process_id \in DOMAIN procs

\* the caller's thread and the SecurityContext handle_syscall reads
CallerThread == threads[current]
CallerSecurity == procs[threads[current].process_id].security

\* the tables and buffers a syscall can touch
Tables == <<procs, threads, queues, current, zombies, waiters, stdout, stdin>>

\* positions of the zombies of parent that wait(pid) may take
Matching(parent, pid) ==
    {i \in 1..Len(zombies) :
        zombies[i].parent = parent /\ (pid = 0 \/ zombies[i].child = pid)}

SetMin(S) == CHOOSE i \in S : \A j \in S : i <= j

----------------------------------------------------------------------------
(* Properties *)

\* C1: in every reachable state at most one thread of the thread table is Running,
\* whatever sequence of thread creation, add_thread, schedule, tick, yield,
\* block_current, unblock_thread, fork, clone, wait and exit led there.
C1_AtMostOneRunning == Cardinality(RunningThreads) <= 1

\* two processes, the thread of one Running while the thread of the other is Blocked
C1_Witness ==
    /\ Cardinality(RunningThreads) = 1
    /\ \E t \in DOMAIN threads : threads[t].state = "Blocked"
    /\ Cardinality(DOMAIN procs) >= 2
    /\ current \in RunningThreads

\* C2: every pick_next() on the run queue returns the head of the highest-priority
\* lane that is not empty (None and no change when all are empty), that thread is
\* the one of its lane that was enqueued first, and only it leaves the queue.
C2_PickNextOrder ==
    [][(rq_count' = rq_count + 1 /\ rq_last'.op = "pick_next") =>
         LET nonempty == {i \in Lanes : rq[i] # <<>>}
             top == CHOOSE i \in nonempty : \A j \in nonempty : j <= i
             got == rq_last'.tid
         IN IF nonempty = {}
            THEN got = None /\ rq' = rq
            ELSE /\ got = rq[top][1]
                 /\ \A n \in 1..Len(rq[top]) : rq_seq[<<top, got>>] <= rq_seq[<<top, rq[top][n]>>]
                 /\ rq' = [rq EXCEPT ![top] = SubSeq(@, 2, Len(@))]
      ]_vars

\* a pick_next that returned a thread and left a thread behind it in two lanes
C2_Witness ==
    /\ rq_last.op = "pick_next"
    /\ rq_last.tid # None
    /\ \E i, j \in Lanes : i < j /\ rq[i] # <<>> /\ rq[j] # <<>>

\* C3 as stated: a thread whose wait(0) blocked and that the exit of child C woke
\* gets C's id from its next wait(0) or wait(C).
C3_NextWaitReturnsChild ==
    [][(Handled(SYS_WAIT) /\ woken[current] # 0 /\ res'.args.a1 \in {0, woken[current]}) =>
         res'.result = Ok(woken[current])
      ]_vars

\* C3, amended: wait(0) with no zombie of the caller's process blocks the caller;
\* the exit of the last thread of a child C of P makes the first registered waiter
\* of P that waits for any child or for C Ready, enqueues it and drops its Waiter;
\* the next wait(0) / wait(C) of a thread woken that way returns C's id when C's
\* zombie is the one that call selects (for wait(C): it is still in the list; for
\* wait(0): it is the oldest zombie of P); a wait that returns an id leaves no
\* zombie of that child behind, and wait(C) with no zombie of C blocks.
C3_Rendezvous ==
    [][/\ (Handled(SYS_WAIT) /\ Matching(CallerThread.process_id, res'.args.a1) = {}) =>
            /\ threads'[current].state = "Blocked"
            /\ res'.result = Ok(0)
       /\ (Handled(SYS_EXIT) /\ HasCaller) =>
            LET pid == CallerThread.process_id
                parent == procs[pid].parent
                last == \A i \in 1..Len(procs[pid].threads) : procs[pid].threads[i] = current
                waiting == {i \in 1..Len(waiters) :
                               /\ waiters[i].parent = parent
                               /\ waiters[i].target \in {None, pid}}
            IN (last /\ parent # None /\ waiting # {}) =>
                  LET first == SetMin(waiting)
                      tid == waiters[first].tid
                  IN /\ waiters' = RemoveAt(waiters, first)
                     /\ (tid \in DOMAIN threads /\ threads[tid].state = "Blocked") =>
                            /\ threads'[tid].state = "Ready"
                            /\ Contains(queues'[threads'[tid].priority], tid)
       /\ (Handled(SYS_WAIT) /\ woken[current] # 0) =>
            LET c == woken[current]
                mine == Matching(CallerThread.process_id, res'.args.a1)
            IN (mine # {} /\ zombies[SetMin(mine)].child = c) => res'.result = Ok(c)
       /\ (Handled(SYS_WAIT) /\ res'.result.val # 0) =>
            \A i \in 1..Len(zombies') : zombies'[i].child # res'.result.val
      ]_vars

\* a wait that returned the id of the child whose exit had woken its caller
C3_Witness ==
    /\ res.kind = "syscall"
    /\ res.num = SYS_WAIT
    /\ res.stage = "handler"
    /\ res.woke # 0
    /\ res.result = Ok(res.woke)

\* C4 as stated: a caller that lacks a required capability bit gets EPERM, and a
\* caller of ring 3, whose bits all come from grant_process_capabilities, is not
\* rejected once it holds them: write returns the byte count.
C4_GrantedCallSucceeds ==
    [][\A n \in 0..(SYSCALL_MAX - 1) :
         (Calls(n) /\ HasCaller /\ SYSCALL_TABLE[n].required_capabilities # {}
                   /\ CallerSecurity.privilege = Ring3) =>
            IF SYSCALL_TABLE[n].required_capabilities \subseteq CallerSecurity.capabilities
            THEN /\ res'.result # Err(EPERM)
                 /\ n = SYS_WRITE => res'.result = Ok(res'.args.a3)
            ELSE res'.result = Err(EPERM)
      ]_vars

\* C4, amended: a caller that lacks a required capability bit gets EPERM from the
\* gate; a caller that holds every required bit (from the start or after
\* grant_process_capabilities) passes the gate and its handler runs; write then
\* returns the byte count and appends that many bytes to stdout when fd is 1 or 2
\* or the length is 0, but returns EPERM for fd 0 and EINVAL for any other fd.
C4_CapabilityGate ==
    [][\A n \in 0..(SYSCALL_MAX - 1) :
         (Calls(n) /\ HasCaller /\ SYSCALL_TABLE[n].required_capabilities # {}) =>
            IF SYSCALL_TABLE[n].required_capabilities \subseteq CallerSecurity.capabilities
            THEN /\ res'.stage = "handler"
                 /\ n = SYS_WRITE =>
                      LET fd == res'.args.a1
                          len == res'.args.a3
                      IN IF len = 0 \/ fd \in {1, 2}
                         THEN /\ res'.result = Ok(len)
                              /\ res'.ret = len
                              /\ Len(stdout') = Len(stdout) + len
                              /\ SubSeq(stdout', 1, Len(stdout)) = stdout
                         ELSE /\ res'.result = IF fd = 0 THEN Err(EPERM) ELSE Err(EINVAL)
                              /\ stdout' = stdout
            ELSE /\ res'.result = Err(EPERM)
                 /\ res'.ret = 0 - EPERM
                 /\ res'.stage = "capability"
      ]_vars

\* a write that returned its byte count to a process holding exactly CAP_CONSOLE_IO,
\* which only a grant can produce
C4_Witness ==
    /\ res.kind = "syscall"
    /\ res.num = SYS_WRITE
    /\ res.args.a3 > 0
    /\ res.result = Ok(res.args.a3)
    /\ res.tid \in DOMAIN threads
    /\ threads[res.tid].process_id \in DOMAIN procs
    /\ procs[threads[res.tid].process_id].security.capabilities = CAP_CONSOLE_IO
    /\ stdout # <<>>

\* C5: a syscall of a caller whose ring is numerically greater than the
\* descriptor's max_caller_ring returns EPERM whatever capabilities the caller
\* holds, and a caller whose ring is less than or equal to it is not rejected by
\* the ring check.
C5_RingGate ==
    [][\A n \in 0..(SYSCALL_MAX - 1) :
         (Calls(n) /\ HasCaller) =>
            IF CallerSecurity.privilege > SYSCALL_TABLE[n].max_caller_ring
            THEN res'.result = Err(EPERM) /\ res'.stage = "ring"
            ELSE res'.stage # "ring"
      ]_vars

\* debug_log denied to a ring-3 caller that holds every capability
C5_Witness ==
    /\ res.kind = "syscall"
    /\ res.num = SYS_DEBUG_LOG
    /\ res.result = Err(EPERM)
    /\ res.tid \in DOMAIN threads
    /\ threads[res.tid].process_id \in DOMAIN procs
    /\ procs[threads[res.tid].process_id].security.privilege = Ring3
    /\ procs[threads[res.tid].process_id].security.capabilities = U64_MAX_MASK

\* C6: dispatch decides in this order: number outside 0..31 -> ENOSYS; no current
\* thread, or no process for it -> ESRCH; ring or capability check failed -> EPERM;
\* otherwise the result of the handler, which for an unimplemented slot is ENOSYS.
C6_DispatchOrder ==
    [][(res = Quiet /\ res'.kind = "syscall") =>
         LET n == res'.num
         IN IF n \notin 0..(SYSCALL_MAX - 1) THEN res'.result = Err(ENOSYS)
            ELSE IF ~HasCaller THEN res'.result = Err(ESRCH)
            ELSE IF \/ CallerSecurity.privilege > SYSCALL_TABLE[n].max_caller_ring
                    \/ ~(SYSCALL_TABLE[n].required_capabilities \subseteq CallerSecurity.capabilities)
                 THEN res'.result = Err(EPERM)
            ELSE /\ res'.result = invoke(SYSCALL_TABLE[n].handler, K, res'.args, NoEnv).result
                 /\ SYSCALL_TABLE[n].handler = "sys_unimplemented" => res'.result = Err(ENOSYS)
      ]_vars

\* debug_log called by a thread whose process is not in the table: ESRCH, neither
\* the EPERM of the ring check nor the ENOSYS of the stub
C6_Witness ==
    /\ res.kind = "syscall"
    /\ res.num = SYS_DEBUG_LOG
    /\ res.stage = "process"
    /\ res.result = Err(ESRCH)

\* C7 as stated: whenever dispatch returns EPERM the handler was not invoked and
\* the tables and stdio buffers are as before the call.
C7_EpermMeansNotInvoked ==
    [][(res = Quiet /\ res'.kind = "syscall" /\ res'.result = Err(EPERM)) =>
         /\ res'.stage # "handler"
         /\ UNCHANGED Tables
      ]_vars

\* C7, amended: a call the ring or capability check rejects never reaches its
\* handler; EPERM otherwise comes only from the write handler refusing fd 0; in
\* both cases the process table, thread table, run queue, zombie list, waiter
\* list and stdio buffers are as before the call.
C7_EpermLeavesState ==
    [][(res = Quiet /\ res'.kind = "syscall" /\ res'.result = Err(EPERM)) =>
         /\ UNCHANGED Tables
         /\ \/ /\ res'.stage \in {"ring", "capability"}
               /\ \/ CallerSecurity.privilege > SYSCALL_TABLE[res'.num].max_caller_ring
                  \/ ~(SYSCALL_TABLE[res'.num].required_capabilities
                          \subseteq CallerSecurity.capabilities)
            \/ /\ res'.stage = "handler"
               /\ res'.num = SYS_WRITE
               /\ res'.args.a1 = 0
               /\ res'.args.a3 > 0
      ]_vars

\* fork rejected by the capability check while a zombie-free, populated kernel is
\* left as it was
C7_Witness ==
    /\ res.kind = "syscall"
    /\ res.num = SYS_FORK
    /\ res.result = Err(EPERM)
    /\ res.stage = "capability"
    /\ next_pid = 2
    /\ DOMAIN procs = {1}

\* C11: a successful fork gives the child the capability mask its parent holds at
\* that moment, in the Process record and in the security-context table, and a
\* step that changes the mask of one process (grant_process_capabilities,
\* set_process_capabilities) leaves the mask of every other process, its children
\* included, unchanged in both tables.
C11_ForkIsolation ==
    [][/\ (Handled(SYS_FORK) /\ res'.result.ok) =>
            LET child == res'.result.val
                parent == CallerThread.process_id
            IN /\ child \in DOMAIN procs' /\ child \notin DOMAIN procs
               /\ procs'[child].security.capabilities = procs[parent].security.capabilities
               /\ child \in DOMAIN sec'
               /\ sec'[child].capabilities = procs[parent].security.capabilities
       /\ \A p \in DOMAIN procs \cap DOMAIN procs' :
            (\/ procs'[p].security.capabilities # procs[p].security.capabilities
             \/ (p \in DOMAIN sec /\ p \in DOMAIN sec'
                    /\ sec'[p].capabilities # sec[p].capabilities)) =>
               \A q \in (DOMAIN procs \cap DOMAIN procs') \ {p} :
                  /\ procs'[q].security = procs[q].security
                  /\ q \in DOMAIN sec /\ q \in DOMAIN sec' => sec'[q] = sec[q]
      ]_vars

\* a child that still holds every capability after its parent's mask was cut down
C11_Witness ==
    /\ {1, 2} \subseteq DOMAIN procs
    /\ procs[2].parent = 1
    /\ procs[2].security.capabilities = U64_MAX_MASK
    /\ sec[2].capabilities = U64_MAX_MASK
    /\ procs[1].security.capabilities = CAP_CONSOLE_IO
    /\ sec[1].capabilities = CAP_CONSOLE_IO

\* C12: for every registered parent context and every subset mask, inherit_child
\* returns a context whose capabilities are parent AND subset (never a bit the
\* parent lacks) and whose other fields are the parent's, and
\* clone_context_with_caps_subset returns that context and registers it under
\* the child pid, leaving the other entries alone; without a parent entry it
\* returns nothing and leaves the table alone.
C12_CloneSubset ==
    \A parent_pid \in Pids, child_pid \in Pids, caps_subset \in SubsetMasks :
        LET r == clone_context_with_caps_subset(sec, parent_pid, child_pid, caps_subset)
        IN IF parent_pid \in DOMAIN sec
           THEN LET parent == sec[parent_pid]
                    child == inherit_child(parent, caps_subset)
                IN /\ child.capabilities = {b \in 0..63 : b \in parent.capabilities /\ b \in caps_subset}
                   /\ child.capabilities \subseteq parent.capabilities
                   /\ \A f \in {"uid", "gid", "euid", "egid", "privilege", "umask"} :
                         child[f] = parent[f]
                   /\ r.child = child
                   /\ DOMAIN r.table = DOMAIN sec \cup {child_pid}
                   /\ r.table[child_pid] = child
                   /\ \A q \in DOMAIN sec \ {child_pid} : r.table[q] = sec[q]
           ELSE r.child = None /\ r.table = sec

\* the module's test: a parent holding PROC_MANAGE, CONSOLE_IO and the granted
\* VM_MANAGE, and a child cloned from it that holds CONSOLE_IO only
C12_Witness ==
    /\ {1, 2} \subseteq DOMAIN sec
    /\ sec[1].capabilities = CAP_PROC_MANAGE \cup CAP_CONSOLE_IO \cup CAP_VM_MANAGE
    /\ sec[2].capabilities = CAP_CONSOLE_IO
    /\ sec[2].uid = 1 /\ sec[2].privilege = Ring3

\* C13: when schedule() has returned leaving budget B, after N tick() calls with no
\* schedule(), yield or syscall in between the remaining budget is B - min(N, B),
\* never below zero, and total_ticks has grown by exactly N.
C13_TickBudget ==
    /\ time_slice_remaining >= 0
    /\ slice.valid =>
          /\ time_slice_remaining =
                slice.budget - (IF slice.ticks < slice.budget THEN slice.ticks ELSE slice.budget)
          /\ total_ticks = slice.start + slice.ticks

\* a budget of 5 that met 7 ticks, and is spent
C13_Witness ==
    /\ slice.valid
    /\ slice.budget = 5
    /\ slice.ticks = 7
    /\ time_slice_remaining = 0

\* C14: an enqueue of an id that its lane already holds leaves the run queue as it
\* was, any other enqueue appends the id to its lane only, and after any sequence
\* of enqueue, pick_next, dequeue and remove no lane holds the same id twice.
C14_IdempotentEnqueue ==
    /\ [](\A i \in Lanes : \A a \in 1..Len(rq[i]), b \in 1..Len(rq[i]) :
              a # b => rq[i][a] # rq[i][b])
    /\ [][(rq_count' = rq_count + 1 /\ rq_last'.op = "enqueue") =>
            \E p \in Lanes :
               IF \E a \in 1..Len(rq[p]) : rq[p][a] = rq_last'.tid
               THEN rq' = rq
               ELSE rq' = [rq EXCEPT ![p] = rq[p] \o <<rq_last'.tid>>]
         ]_vars

\* the last call was an enqueue of an id its lane already held (no enqueue ordinal
\* was handed out for it), with at least two calls made before it
C14_Witness ==
    /\ rq_last.op = "enqueue"
    /\ rq_count >= 3
    /\ \E p \in Lanes : Contains(rq[p], rq_last.tid)
    /\ \A p \in Lanes : rq_seq[<<p, rq_last.tid>>] # rq_count

\* C15: process ids and thread ids start at 1 and are handed out in increasing
\* order: every id in a table is below the table's counter, the counters never
\* decrease, and an id that enters a table in a step is one the counter passed in
\* that step, hence above every id handed out before, exited or not.
C15_FreshIds ==
    /\ [](/\ \A p \in DOMAIN procs : 1 <= p /\ p < next_pid
          /\ \A t \in DOMAIN threads : 1 <= t /\ t < next_tid)
    /\ [][/\ next_pid' >= next_pid
          /\ next_tid' >= next_tid
          /\ \A p \in DOMAIN procs' \ DOMAIN procs : next_pid <= p /\ p < next_pid'
          /\ \A t \in DOMAIN threads' \ DOMAIN threads : next_tid <= t /\ t < next_tid'
         ]_vars

\* a clone that returned thread id 3 after thread 1 had exited
C15_Witness ==
    /\ res.kind = "syscall"
    /\ res.num = SYS_CLONE
    /\ res.result.ok
    /\ res.result.val = 3
    /\ 3 \in DOMAIN threads
    /\ 1 \notin DOMAIN threads

\* C16: syscall_handler returns a negative value exactly when the handler failed,
\* that value is then one of -1, -3, -12, -22, -38, and every successful result
\* comes back non-negative.
C16_NegativeIffFailed ==
    res.kind = "syscall" =>
        /\ (res.ret < 0) <=> ~res.result.ok
        /\ ~res.result.ok => res.ret \in {0 - EPERM, 0 - ESRCH, 0 - ENOMEM, 0 - EINVAL, 0 - ENOSYS}
        /\ res.result.ok => res.ret >= 0

\* C17: no operation acquires the lock of one shared table (process table, thread
\* table, scheduler, security contexts, zombie list, waiter list) while it still
\* holds the lock of another.
C17_OneTableLockAtATime ==
    \A who \in {"task", "irq"} :
        Cardinality({m \in Mutexes : owner[m] = who}) <= 1

\* C18: the timer tick never waits on a lock other than the scheduler's own: no
\* tick() is ever left spinning on the thread-table lock held by the code the
\* timer interrupted.
C18_TickNeverSpinsOnTable ==
    ~(/\ irq # NotRunning
      /\ Event(irq).by = "tick"
      /\ Event(irq).a = "lock"
      /\ Event(irq).m # SCHEDULER
      /\ owner[Event(irq).m] = "task")

\* C19: an exec that fails leaves the image and name of every process and the
\* context and user stack of every thread as they were; a path that is not a
\* program gives ESRCH and a loader error gives EINVAL.
C19_ExecFailureInstallsNothing ==
    [][(Calls(SYS_EXEC) /\ ~res'.result.ok) =>
         /\ DOMAIN procs' = DOMAIN procs
         /\ \A p \in DOMAIN procs :
               procs'[p].image = procs[p].image /\ procs'[p].name = procs[p].name
         /\ DOMAIN threads' = DOMAIN threads
         /\ \A t \in DOMAIN threads :
               /\ threads'[t].context = threads[t].context
               /\ threads'[t].user_stack = threads[t].user_stack
         /\ res'.stage = "handler" =>
               LET a1 == res'.args.a1
                   a2 == res'.args.a2
                   named == a1 = 0 \/ a1 \in DOMAIN UserCStrings
                   path == IF a1 = 0 THEN "/sbin/init" ELSE UserCStrings[a1]
                   listed == a2 = 0 \/ (a2 \in DOMAIN UserStringArrays /\
                                \A i \in DOMAIN UserStringArrays[a2] :
                                    UserStringArrays[a2][i] \in DOMAIN UserCStrings)
               IN /\ (named /\ listed /\ path \notin ProgramPaths) => res'.result.val = ESRCH
                  /\ (named /\ listed /\ path \in ProgramPaths) =>
                        /\ res'.result.val = EINVAL
                        /\ ~(res'.env.load_ok /\ res'.env.exec_ok)
      ]_vars

\* a process running /bin/sh whose exec of /sbin/init the loader refused
C19_Witness ==
    /\ res.kind = "syscall" /\ res.num = SYS_EXEC /\ res.stage = "handler"
    /\ res.args.a1 = 0
    /\ ~res.env.load_ok
    /\ res.result = Err(EINVAL)
    /\ res.tid \in DOMAIN threads
    /\ procs[threads[res.tid].process_id].name = "/bin/sh"
    /\ procs[threads[res.tid].process_id].image = <<LoadedImage("/bin/sh")>>

\* C20: a successful exec by thread T of process P changes T's context and user
\* stack and P's image and name, and nothing else: every other thread, the state
\* of T, the run queue, the current thread, every other process, the zombie and
\* waiter lists and the id counters are as before.
C20_ExecFrame ==
    [][(Handled(SYS_EXEC) /\ res'.result.ok) =>
         LET T == current
             P == threads[T].process_id
             image == LoadedImage(IF res'.args.a1 = 0 THEN "/sbin/init"
                                  ELSE UserCStrings[res'.args.a1])
         IN /\ DOMAIN threads' = DOMAIN threads
            /\ \A t \in DOMAIN threads \ {T} : threads'[t] = threads[t]
            /\ threads'[T] = [threads[T] EXCEPT
                                !.context = Context_new_user(image.entry_point, image.user_sp),
                                !.user_stack = image.user_sp]
            /\ DOMAIN procs' = DOMAIN procs
            /\ \A p \in DOMAIN procs \ {P} : procs'[p] = procs[p]
            /\ procs'[P] = [procs[P] EXCEPT !.image = <<image>>, !.name = image.path]
            /\ UNCHANGED <<queues, current, idle_thread, time_slice_remaining, total_ticks,
                           next_pid, next_tid, sec, zombies, waiters, stdout, stdin>>
      ]_vars

\* an exec of /bin/sh by one of two threads of a process; the other thread still
\* has the context it was cloned with
C20_Witness ==
    /\ res.kind = "syscall" /\ res.num = SYS_EXEC /\ res.result.ok
    /\ res.tid \in DOMAIN threads
    /\ procs[threads[res.tid].process_id].name = "/bin/sh"
    /\ threads[res.tid].context.rip = LoadedImage("/bin/sh").entry_point
    /\ \E t \in DOMAIN threads \ {res.tid} :
          /\ threads[t].process_id = threads[res.tid].process_id
          /\ threads[t].context.rip # LoadedImage("/bin/sh").entry_point

\* C21: a successful fork by a thread of process P returns the id of a new process
\* C whose parent is P and which P lists among its children; C owns exactly one
\* thread, which is new, Ready, of the caller's priority, starts at the caller's
\* instruction pointer and user-stack pointer, and sits in the lane of its
\* priority and in no other.
C21_ForkCreatesChild ==
    [][(Handled(SYS_FORK) /\ res'.result.ok) =>
         LET C == res'.result.val
             P == CallerThread.process_id
         IN /\ C \notin DOMAIN procs /\ C \in DOMAIN procs'
            /\ procs'[C].parent = P
            /\ \E i \in 1..Len(procs'[P].children) : procs'[P].children[i] = C
            /\ Len(procs'[C].threads) = 1
            /\ LET t == procs'[C].threads[1]
               IN /\ t \notin DOMAIN threads /\ t \in DOMAIN threads'
                  /\ {u \in DOMAIN threads' : threads'[u].process_id = C} = {t}
                  /\ threads'[t].state = "Ready"
                  /\ threads'[t].priority = CallerThread.priority
                  /\ threads'[t].context.rip = CallerThread.context.rip
                  /\ threads'[t].user_stack = CallerThread.user_stack
                  /\ \A lane \in Lanes :
                        (\E i \in 1..Len(queues'[lane]) : queues'[lane][i] = t)
                            <=> lane = threads'[t].priority
      ]_vars

\* process 1 forked process 2, whose one thread waits in the Normal lane
C21_Witness ==
    /\ res.kind = "syscall" /\ res.num = SYS_FORK /\ res.result = Ok(2)
    /\ 2 \in DOMAIN procs
    /\ procs[2].parent = 1
    /\ Len(procs[2].threads) = 1
    /\ Contains(queues[Normal], procs[2].threads[1])

\* C22: inherit() returns a table whose entries are exactly the inheritable entries
\* of the source, in order, and whose next-free-fd counter equals the source's, so
\* that allocate() on it returns the fd number allocate() on the source returns.
C22_InheritKeepsCounter ==
    LET child == FileDescriptorTable_inherit(fdt)
    IN /\ Len(child.entries) = Cardinality({i \in 1..Len(fdt.entries) : fdt.entries[i].inheritable})
       /\ \A i \in 1..Len(child.entries) :
             \E j \in 1..Len(fdt.entries) :
                fdt.entries[j].inheritable /\ child.entries[i] = fdt.entries[j]
       /\ child.next_fd = fdt.next_fd
       /\ FileDescriptorTable_allocate(child, 0, TRUE, "Stdout").fd =
             FileDescriptorTable_allocate(fdt, 0, TRUE, "Stdout").fd

\* C23 as stated: unblock_thread(tid) makes a Blocked thread Ready and appends it to
\* its priority lane, changes nothing for any other thread, and a second call
\* changes nothing more.
C23_UnblockAppends ==
    \A tid \in Tids :
        LET k1 == unblock_thread(K, tid)
        IN IF tid \in DOMAIN threads /\ threads[tid].state = "Blocked"
           THEN /\ k1.threads = [t \in DOMAIN threads |->
                                   IF t = tid THEN [threads[t] EXCEPT !.state = "Ready"]
                                   ELSE threads[t]]
                /\ k1.queues = [lane \in Lanes |->
                                  IF lane = threads[tid].priority
                                  THEN queues[lane] \o <<tid>> ELSE queues[lane]]
                /\ unblock_thread(k1, tid) = k1
           ELSE k1 = K

\* C23: unblock_thread(tid) changes state only when the thread is Blocked: the
\* thread becomes Ready and is appended to its priority lane unless that lane
\* already holds it; nothing else changes; for a Ready, Running, Terminated or
\* absent thread nothing changes at all; a second call changes nothing more.
C23_UnblockFrame ==
    \A tid \in Tids :
        LET k1 == unblock_thread(K, tid)
        IN IF tid \in DOMAIN threads /\ threads[tid].state = "Blocked"
           THEN /\ k1.threads = [t \in DOMAIN threads |->
                                   IF t = tid THEN [threads[t] EXCEPT !.state = "Ready"]
                                   ELSE threads[t]]
                /\ k1.queues = [lane \in Lanes |->
                                  IF /\ lane = threads[tid].priority
                                     /\ \A i \in 1..Len(queues[lane]) : queues[lane][i] # tid
                                  THEN queues[lane] \o <<tid>> ELSE queues[lane]]
                /\ [k1 EXCEPT !.threads = threads, !.queues = queues] = K
                /\ unblock_thread(k1, tid) = k1
           ELSE k1 = K

\* a Blocked thread that its lane still holds (add_thread queued it while it was
\* the running thread, block_current then blocked it), next to a Running thread
C23_Witness ==
    /\ \E t \in DOMAIN threads :
          threads[t].state = "Blocked" /\ Contains(queues[threads[t].priority], t)
    /\ \E t \in DOMAIN threads : threads[t].state = "Running"

\* the thread t is Blocked and holds a registered Waiter
WaitBlocked(t) ==
    /\ t \in DOMAIN threads
    /\ threads[t].state = "Blocked"
    /\ \E i \in 1..Len(waiters) : waiters[i].tid = t

\* this step is the exit of the last thread of a child of the waiter w's process
\* that matches the waiter's target
MatchingExit(w) ==
    /\ Handled(SYS_EXIT)
    /\ HasCaller
    /\ CallerThread.process_id \notin DOMAIN procs'
    /\ procs[CallerThread.process_id].parent = w.parent
    /\ w.target \in {None, CallerThread.process_id}

\* C24: a thread blocked by wait is in no lane, and it stays Blocked across
\* every step (tick, schedule, yield, fork, clone, wait, exit) other than the
\* exit of the last thread of a child of its process matching its target
C24_WaiterStaysBlocked ==
    /\ [](\A t \in Tids : WaitBlocked(t) => \A p \in DOMAIN queues : ~Contains(queues[p], t))
    /\ [][\A t \in Tids :
             (WaitBlocked(t) /\ ~(t \in DOMAIN threads' /\ threads'[t].state = "Blocked"))
                 => \E i \in 1..Len(waiters) :
                        /\ waiters[i].tid = t
                        /\ MatchingExit(waiters[i])
                        /\ t \in DOMAIN threads'
                        /\ threads'[t].state = "Ready"]_vars

\* a waiter for child 2 is still Blocked after another child of its process
\* has exited and left a zombie, and the clock has ticked
C24_Witness ==
    /\ total_ticks > 0
    /\ \E t \in Tids :
          /\ WaitBlocked(t)
          /\ \E i \in 1..Len(waiters), j \in 1..Len(zombies) :
                /\ waiters[i].tid = t
                /\ waiters[i].target = 2
                /\ zombies[j].parent = waiters[i].parent
                /\ zombies[j].child # 2

\* the offsets at which the image differs from the executable it was built as
Dirty ==
    LET original == MinimalElf(elf.made.machine, elf.made.entry, elf.made.vaddr,
                               elf.made.notes)
    IN {o \in 0..(Len(elf.image) - 1) : elf.image[o + 1] # original[o + 1]}

\* C25: a well-formed ELF64 image with one PT_LOAD segment, loaded for the
\* target its machine id names (62 for x86_64, 183 for aarch64), gives an image
\* whose entry_point is e_entry and whose single segment has the vaddr of the
\* PT_LOAD program header; the same bytes with a corrupted magic give
\* InvalidMagic; a machine id that differs from the target's gives
\* UnsupportedMachine
C25_LoadBoundaries ==
    elf.result # <<>> =>
        LET result == elf.result[1]
            expected == IF elf.arch = "X86_64" THEN 62 ELSE 183
        IN /\ (Dirty = {} /\ elf.made.machine = expected) =>
                  /\ result.ok
                  /\ result.val.entry_point = elf.made.entry
                  /\ Len(result.val.segments) = 1
                  /\ result.val.segments[1].vaddr = elf.made.vaddr
           /\ (Dirty # {} /\ Dirty \subseteq 0..3) =>
                  (~result.ok /\ result.val = "InvalidMagic")
           /\ (Dirty = {} /\ elf.made.machine # expected) =>
                  (~result.ok /\ result.val = "UnsupportedMachine")

\* an executable with a note and a load segment was loaded for aarch64
C25_Witness ==
    /\ elf.result # <<>>
    /\ elf.result[1].ok
    /\ elf.arch = "AArch64"
    /\ elf.made.notes = 1
    /\ elf.result[1].val.entry_point = 4198400
    /\ elf.result[1].val.segments[1].vaddr = 4194304

\* C26: build_stack fails with StackOverflow exactly when the size of the
\* image (argc, the two null-terminated pointer arrays and the auxiliary
\* vector, rounded up to 16 bytes, followed by the strings with their
\* terminators, rounded up to 16 bytes) exceeds stack_end - stack_start;
\* otherwise it returns the whole image: user_sp is 16-byte aligned,
\* stack_start <= user_sp, user_sp + len(data) <= stack_end, every word and
\* every string lies inside data and each pointer names its string
C26_StackCapacity ==
    stk.result # <<>> =>
        LET result == stk.result[1]
            argc == Len(stk.argv)
            envc == Len(stk.envp)
            strings == stk.argv \o stk.envp
            header == 8 * (1 + (argc + 1) + (envc + 1) + 2 * 13)
            strings_at == 16 * ((header + 15) \div 16)
            size == 16 * ((strings_at + strings_bytes(strings) + 15) \div 16)
            stack_start == 2^30 - 2^16
            stack_end == 2^30
        IN /\ result.ok <=> size <= stack_end - stack_start
           /\ ~result.ok => result.val = "StackOverflow"
           /\ result.ok =>
                 LET image == result.val
                 IN /\ image.user_sp % 16 = 0
                    /\ stack_start <= image.user_sp
                    /\ image.user_sp + image.data.len <= stack_end
                    /\ image.data.len = size
                    /\ DOMAIN image.data.words = {8 * w : w \in 0..((header \div 8) - 1)}
                    /\ image.data.words[0] = argc
                    /\ Len(image.data.strings) = argc + envc
                    /\ \A i \in 1..(argc + envc) :
                          /\ image.data.strings[i].len = strings[i] + 1
                          /\ image.data.strings[i].at >= header
                          /\ image.data.strings[i].at + image.data.strings[i].len
                                 <= image.data.len
                          /\ \A j \in 1..(i - 1) :
                                image.data.strings[j].at + image.data.strings[j].len
                                    <= image.data.strings[i].at
                    /\ \A i \in 1..argc :
                          image.data.words[8 * i] = image.user_sp + image.data.strings[i].at
                    /\ image.data.words[8 * (argc + 1)] = 0
                    /\ \A i \in 1..envc :
                          image.data.words[8 * (argc + 1 + i)]
                              = image.user_sp + image.data.strings[argc + i].at
                    /\ image.data.words[8 * (argc + envc + 2)] = 0

\* two strings whose image fills the stack window to the last byte
C26_Witness ==
    /\ stk.result # <<>>
    /\ stk.result[1].ok
    /\ Len(stk.argv) + Len(stk.envp) = 2
    /\ stk.result[1].val.data.len = 2^16
    /\ stk.result[1].val.user_sp = stk.result[1].val.stack_bottom

\* C27: after every completed syscall or scheduler operation the current slot
\* is empty or names a thread that is present in the thread table in state
\* Running; after the current thread calls exit the slot no longer names it
C27_CurrentIsRunning ==
    \/ current = None
    \/ /\ current \in DOMAIN threads
       /\ threads[current].state = "Running"

\* C28: under syscalls and tick, schedule and yield steps every thread id in
\* a lane names a thread of the thread table in state Ready: no Blocked,
\* Terminated, Running or absent thread is queued
C28_LanesHoldReady ==
    \A p \in DOMAIN queues : \A i \in 1..Len(queues[p]) :
        /\ queues[p][i] \in DOMAIN threads
        /\ threads[queues[p][i]].state = "Ready"

\* a thread was blocked by wait while another thread is queued, and the
\* blocked thread is in no lane
C28_Witness ==
    /\ \E t \in DOMAIN threads :
          /\ threads[t].state = "Blocked"
          /\ \A p \in DOMAIN queues : ~Contains(queues[p], t)
    /\ \E p \in DOMAIN queues : queues[p] # <<>>
    /\ total_ticks > 0

\* the highest lane of q that holds a thread
TopLane(q) == CHOOSE p \in Lanes : q[p] # <<>> /\ \A r \in Lanes : r > p => q[r] = <<>>

\* the budget of each priority
SliceTable == [p \in Lanes |-> CASE p = Idle -> 1 [] p = Low -> 5 [] p = Normal -> 10
                                 [] p = High -> 20 [] p = Realtime -> 50]

C30_ShortCircuit ==
    (/\ time_slice_remaining > 0
     /\ current \in DOMAIN threads
     /\ threads[current].state \in {"Ready", "Running"}) =>
        LET out == schedule(K)
        IN /\ out.ret = current
           /\ out.k.queues = queues
           /\ out.k.threads = threads
           /\ out.k.current = current
           /\ out.k.time_slice_remaining = time_slice_remaining

\* the mutex the processor c is about to lock, when its next event is a lock()
Wants(c) == IF smp.run[c] # NotRunning /\ Event(smp.run[c]).a = "lock"
            THEN {Event(smp.run[c]).m} ELSE {}

\* the mutexes the processor c holds
Holds(c) == {m \in Mutexes : smp.own[m] = c}

\* the order of the nested locks; the zombie and waiter lists are outside it
LockRank(m) == CASE m = SCHEDULER -> 1 [] m = THREAD_TABLE -> 2 [] m = PROCESS_TABLE -> 3
                 [] m = SECURITY_CONTEXTS -> 4 [] OTHER -> 0

\* C31: with several processors in syscalls and scheduler operations at once
\* there is no set of processors each of which waits for a lock held by one of
\* the set (in particular no processor locks a mutex it holds), and a lock is
\* only taken while holding locks earlier in the order scheduler, thread
\* table, process table, security-context table; the zombie and waiter lists
\* are locked with nothing held
C31_NoDeadlock ==
    /\ \A S \in SUBSET Cpus :
          S # {} => \E c \in S : \A m \in Wants(c) : smp.own[m] \notin S
    /\ \A c \in Cpus : \A m \in Wants(c) : \A h \in Holds(c) :
          /\ LockRank(h) # 0
          /\ LockRank(h) < LockRank(m)

\* every processor is in the kernel, one waits for the thread table that
\* another holds while that one takes the process table
C31_Witness ==
    /\ \A c \in Cpus : smp.run[c] # NotRunning
    /\ \E c, d \in Cpus :
          /\ c # d
          /\ Wants(c) = {THREAD_TABLE}
          /\ SCHEDULER \in Holds(c)
          /\ THREAD_TABLE \in Holds(d)
          /\ Wants(d) = {PROCESS_TABLE}

\* how often the thread t stands in the thread list of the process p
Listed(p, t) == Cardinality({i \in 1..Len(procs[p].threads) : procs[p].threads[i] = t})

\* C32: after every completed syscall a thread is in the thread table exactly
\* when its process is in the process table and lists it exactly once: every
\* thread of the table has its process, listed once there, and every entry of
\* a process's thread list is a thread of the table owned by that process and
\* occurs once.
C32_ThreadsAndLists ==
    res.kind = "syscall" =>
        /\ \A t \in DOMAIN threads :
              /\ threads[t].process_id \in DOMAIN procs
              /\ Listed(threads[t].process_id, t) = 1
        /\ \A p \in DOMAIN procs : \A i \in 1..Len(procs[p].threads) :
              /\ procs[p].threads[i] \in DOMAIN threads
              /\ threads[procs[p].threads[i]].process_id = p
              /\ Listed(p, procs[p].threads[i]) = 1

\* an exit has completed that removed one thread of a process that keeps
\* another, the one clone registered
C32_Witness ==
    /\ res.kind = "syscall"
    /\ res.num = SYS_EXIT
    /\ res.result.ok
    /\ res.tid \notin DOMAIN threads
    /\ \E p \in DOMAIN procs : Len(procs[p].threads) = 1 /\ procs[p].threads[1] > 1

\* the positions of the waiter list that hold a Waiter of the thread t
WaitersOf(t) == {i \in 1..Len(waiters) : waiters[i].tid = t}

\* C33: after every completed syscall a thread is Blocked exactly when the
\* waiter list holds a Waiter for it: every Blocked thread has one, every
\* Waiter names a thread of the table that is Blocked, and no thread has two.
C33_BlockedIffWaiter ==
    res.kind = "syscall" =>
        /\ \A t \in DOMAIN threads :
              threads[t].state = "Blocked" <=> WaitersOf(t) # {}
        /\ \A i \in 1..Len(waiters) :
              /\ waiters[i].tid \in DOMAIN threads
              /\ Cardinality(WaitersOf(waiters[i].tid)) = 1

\* an exit has completed that woke one of two waiters: one thread is Ready
\* again without a Waiter, another is still Blocked with its Waiter
C33_Witness ==
    /\ res.kind = "syscall"
    /\ res.num = SYS_EXIT
    /\ \E t \in DOMAIN threads :
          /\ woken[t] # 0
          /\ threads[t].state = "Ready"
          /\ WaitersOf(t) = {}
    /\ \E t \in DOMAIN threads : threads[t].state = "Blocked" /\ WaitersOf(t) # {}

\* C34: when the last thread of a child C exits, every Blocked thread of the
\* parent that is registered as a waiter for C itself is unblocked by that
\* exit (Ready after it), whatever other threads of the parent are waiting.
C34_TargetedWaiterWoken ==
    [][\A i \in 1..Len(waiters) :
          (/\ waiters[i].target # None
           /\ WaitBlocked(waiters[i].tid)
           /\ MatchingExit(waiters[i]))
              => threads'[waiters[i].tid].state = "Ready"]_vars

\* C35: every ZombieChild names as parent a process that is in the process
\* table, and the exit of the last thread of a process whose parent is no
\* longer in the process table appends no ZombieChild.
C35_ZombieParentAlive ==
    /\ [](\A i \in 1..Len(zombies) : zombies[i].parent \in DOMAIN procs)
    /\ [][(/\ Handled(SYS_EXIT)
           /\ HasCaller
           /\ CallerThread.process_id \notin DOMAIN procs'
           /\ procs[CallerThread.process_id].parent \notin DOMAIN procs)
              => zombies' = zombies]_vars

\* C36: a fork that returns ENOMEM, whichever of its two frame allocations
\* failed, leaves the process table (the parent's children list with it), the
\* thread table, the security-context table and the run queue as they were.
C36_FailedForkChangesNothing ==
    [][(/\ Handled(SYS_FORK)
        /\ ~res'.result.ok
        /\ res'.result.val = ENOMEM)
           => /\ procs' = procs
              /\ threads' = threads
              /\ sec' = sec
              /\ queues' = queues]_vars

\* t is a thread of the highest priority any thread has
Highest(t) ==
    /\ t \in DOMAIN threads
    /\ \A u \in DOMAIN threads : threads[u].priority <= threads[t].priority

\* the place of t in the lane of its priority, 0 when it is not queued
Place(q, t) == Position(q[threads[t].priority], LAMBDA u : u = t)

\* the ticks after which t is selected at the latest: the rest of the running
\* slice and a full slice for each thread queued before t
Needed(t) ==
    time_slice_remaining
        + (Place(queues, t) - 1) * calculate_time_slice(threads[t].priority)

\* this step is a timer interrupt whose schedule() takes the CPU from the
\* current thread: the tick uses up the slice
Rotation ==
    /\ total_ticks' = total_ticks + 1
    /\ tick(K).time_slice_remaining = 0

\* C37: while the timer keeps interrupting (tick() then schedule()), every
\* queued thread of the highest priority is selected as the current thread
\* again, unless a thread of a higher priority arrives; at each rotation the
\* head of that lane becomes current, every other thread of the lane moves up
\* one place and the outgoing thread of that priority goes to the tail, so a
\* thread with k - 1 threads of its lane before it runs within k rotations and
\* none is skipped.  (The last conjunct ties the fairness condition to the
\* handler: the steps that count a tick are the steps of the handler.)
C37_RoundRobin ==
    /\ \A t \in 1..(FairMaxTid + 1) :
          (/\ Highest(t)
           /\ Place(queues, t) > 0
           /\ total_ticks + Needed(t) <= FairMaxTicks)
              ~> (current = t \/ ~Highest(t))
    /\ [][\A t \in DOMAIN threads :
             (Highest(t) /\ Rotation) =>
                 /\ Place(queues, t) = 1 => current' = t
                 /\ Place(queues, t) > 1 => Place(queues', t) = Place(queues, t) - 1
                 /\ (current = t /\ queues[threads[t].priority] # <<>>)
                        => Place(queues', t) = Len(queues'[threads[t].priority])
                 /\ (current = t /\ queues[threads[t].priority] = <<>>)
                        => current' = t]_vars
    /\ [][TimerFires <=> TimerInterruptHandler(FairMaxTicks)]_vars

\* three threads of one priority have each had the CPU: the first runs again
\* while the other two wait in the order they ran
C37_Witness ==
    /\ DOMAIN threads = 1..3
    /\ \A t \in 1..3 : threads[t].priority = Low /\ threads[t].total_cpu_time > 0
    /\ current = 1
    /\ queues[Low] = <<2, 3>>
    /\ total_ticks >= 3 * calculate_time_slice(Low)

\* C38: whatever create_process, fork, set_process_capabilities,
\* grant_process_capabilities and exit have done, the security-context table
\* has an entry for exactly the processes of the process table, and the entry's
\* capability mask is the mask in the Process record.
C38_MasksAgree ==
    /\ DOMAIN sec = DOMAIN procs
    /\ \A p \in DOMAIN procs : sec[p].capabilities = procs[p].security.capabilities

\* process 1 has exited and its entry is gone; process 2, forked from it, has
\* had its mask changed since and carries the new mask in both places
C38_Witness ==
    /\ DOMAIN procs = {2}
    /\ DOMAIN sec = {2}
    /\ procs[2].parent = 1
    /\ sec[2].capabilities = CAP_CONSOLE_IO
    /\ procs[2].security.capabilities = CAP_CONSOLE_IO

\* C39: no thread of the thread table is ever Sleeping: the state of every
\* thread is one of Ready, Running, Blocked and Terminated.
C39_NeverSleeping ==
    \A t \in DOMAIN threads :
        /\ threads[t].state # "Sleeping"
        /\ threads[t].state \in {"Ready", "Running", "Blocked", "Terminated"}

\* a thread is parked by wait while another runs and a third is queued
C39_Witness ==
    \E b, r, q \in DOMAIN threads :
        /\ threads[b].state = "Blocked"
        /\ threads[r].state = "Running"
        /\ threads[q].state = "Ready"
        /\ res.kind = "syscall"

\* the RELATIVE kind of a target
RelativeOf(arch) == IF arch = "X86_64" THEN R_X86_64_RELATIVE ELSE R_AARCH64_RELATIVE

\* the type field of an r_info word: its low 32 bits in ELF64 (the symbol
\* index of the words used is 0), its low 8 bits in ELF32
TypeOf(class, info) == IF class = ELFCLASS32 THEN info % 256 ELSE info

\* C40: an executable of either class, loaded for the target its machine id
\* names, with one relocation entry: when the entry carries the RELATIVE kind
\* of the target (8 for x86_64, 1027 for aarch64) the load succeeds, and when
\* its type is any other the load fails with RelocationUnsupported.
C40_RelativeOnly ==
    (/\ elf.built
     /\ elf.result # <<>>
     /\ elf.made.machine = (IF elf.arch = "X86_64" THEN 62 ELSE 183))
        => /\ elf.made.info = RelativeOf(elf.arch) => elf.result[1].ok
           /\ (/\ elf.made.info # RelativeOf(elf.arch)
               /\ TypeOf(elf.made.class, elf.made.info) # RelativeOf(elf.arch))
                  => (~elf.result[1].ok /\ elf.result[1].val = "RelocationUnsupported")

\* C8: after every completed syscall, every process in the process table owns at
\* least one thread.
C8_NoEmptyProcess ==
    res.kind = "syscall" => \A p \in DOMAIN procs : procs[p].threads # <<>>

\* C9: exit(status) by the last thread of its process removes the process and
\* appends exactly one ZombieChild{parent, child, status} when the process has a
\* parent, none when it has not; exit by a thread of a process with other threads
\* keeps the process and leaves the zombie list alone.
C9_ExitReaps ==
    [][(Handled(SYS_EXIT) /\ HasCaller) =>
         LET pid == CallerThread.process_id
             parent == procs[pid].parent
             last == \A i \in 1..Len(procs[pid].threads) : procs[pid].threads[i] = current
         IN IF last
            THEN /\ pid \notin DOMAIN procs'
                 /\ zombies' = IF parent # None
                               THEN Append(zombies, [parent |-> parent, child |-> pid,
                                                     status |-> res'.args.a1])
                               ELSE zombies
            ELSE /\ pid \in DOMAIN procs'
                 /\ zombies' = zombies
      ]_vars

\* the exit of a last thread whose process left a zombie carrying the exit status
C9_Witness ==
    /\ res.kind = "syscall"
    /\ res.num = SYS_EXIT
    /\ res.stage = "handler"
    /\ zombies # <<>>
    /\ zombies[Len(zombies)].status = res.args.a1
    /\ zombies[Len(zombies)].child \notin DOMAIN procs
    /\ res.tid \notin DOMAIN threads

\* C10: wait(pid) by a thread of P: when a zombie of P matches, exactly one
\* matching zombie leaves the list, its child id is returned and the caller is not
\* blocked and no Waiter is registered; otherwise the zombie list is unchanged, a
\* Waiter{P, caller, target} is registered and the caller is Blocked.  Zombies of
\* other parents stay where they are.
C10_Wait ==
    [][Handled(SYS_WAIT) =>
         LET P == CallerThread.process_id
             pid == res'.args.a1
             mine == Matching(P, pid)
         IN IF mine # {}
            THEN /\ \E i \in mine :
                       /\ zombies' = RemoveAt(zombies, i)
                       /\ res'.result = Ok(zombies[i].child)
                 /\ threads'[current].state = threads[current].state
                 /\ current' = current
                 /\ waiters' = waiters
            ELSE /\ zombies' = zombies
                 /\ res'.result = Ok(0)
                 /\ threads'[current].state = "Blocked"
                 /\ \E i \in 1..Len(waiters') :
                       waiters'[i] = [parent |-> P, tid |-> current,
                                      target |-> IF pid = 0 THEN None ELSE pid]
      ]_vars

\* a wait that returned a child id while a zombie of another parent stays listed
C10_Witness ==
    /\ res.kind = "syscall"
    /\ res.num = SYS_WAIT
    /\ res.stage = "handler"
    /\ res.result.val # 0
    /\ res.tid \in DOMAIN threads
    /\ \E i \in 1..Len(zombies) : zombies[i].parent # threads[res.tid].process_id

====
